---- MODULE Spec2Model ----
(***************************************************************************)
(* Model of the blood-donation server (server/server.js): the donor        *)
(* collection, the stats aggregate, the storage initialisation and the     *)
(* request handlers of POST /api/donate, POST /api/sync-stats and          *)
(* GET /api/stats, each handler cut at its awaits.                         *)
(***************************************************************************)
EXTENDS Integers, Sequences, FiniteSets, TLC

(***************************************************************************)
(* Bounds of the model.                                                    *)
(***************************************************************************)
MaxReq == 2
MaxDonors == 2
MaxFailures == 1
MaxClock == 1
MaxList == 11

(***************************************************************************)
(* Loosely typed JSON values of a request body.  A string is a sequence of *)
(* one-character strings, so that trim and parseInt can be computed.       *)
(***************************************************************************)
Undefined == [t |-> "undefined", s |-> <<>>, n |-> 0]
Str(chars) == [t |-> "string", s |-> chars, n |-> 0]
Num(i) == [t |-> "number", s |-> <<>>, n |-> i]

\* a presence test that only looks for undefined: the empty string passes
TruthyDefined(x) == x.t # "undefined"

\* JavaScript truthiness of a value, as used by the ! operator
Truthy(x) ==
    CASE x.t = "undefined" -> FALSE
      [] x.t = "string" -> x.s # <<>>
      [] x.t = "number" -> x.n # 0
      [] OTHER -> TRUE

IsSpace(c) == c \in {" ", "\t"}

DigitValue(c) ==
    CASE c = "0" -> 0 [] c = "1" -> 1 [] c = "2" -> 2 [] c = "3" -> 3
      [] c = "4" -> 4 [] c = "5" -> 5 [] c = "6" -> 6 [] c = "7" -> 7
      [] c = "8" -> 8 [] c = "9" -> 9 [] OTHER -> -1

IsDigit(c) == DigitValue(c) >= 0

RECURSIVE TrimStart(_)
TrimStart(s) ==
    IF s # <<>> /\ IsSpace(Head(s)) THEN TrimStart(Tail(s)) ELSE s

RECURSIVE TrimEnd(_)
TrimEnd(s) ==
    IF s # <<>> /\ IsSpace(s[Len(s)]) THEN TrimEnd(SubSeq(s, 1, Len(s) - 1)) ELSE s

\* String.prototype.trim
Trim(s) == TrimEnd(TrimStart(s))

\* the not-a-number result of parseInt, and a parsed integer
NaN == [nan |-> TRUE, v |-> 0]
Int32(i) == [nan |-> FALSE, v |-> i]

isNaN(p) == p.nan

\* the value of the longest prefix of decimal digits of s, continuing from acc
RECURSIVE DigitPrefix(_, _)
DigitPrefix(s, acc) ==
    IF s # <<>> /\ IsDigit(Head(s))
    THEN DigitPrefix(Tail(s), 10 * acc + DigitValue(Head(s)))
    ELSE acc

\* parseInt of a string: leading white space is skipped, an optional sign is
\* read, then the longest prefix of digits; no digit at all gives NaN
ParseIntStr(s) ==
    LET t == TrimStart(s)
        neg == t # <<>> /\ Head(t) = "-"
        u == IF t # <<>> /\ Head(t) \in {"-", "+"} THEN Tail(t) ELSE t
    IN  IF u = <<>> \/ ~IsDigit(Head(u))
        THEN NaN
        ELSE Int32(IF neg THEN 0 - DigitPrefix(u, 0) ELSE DigitPrefix(u, 0))

\* parseInt(age): the argument is converted to a string first
parseInt(x) ==
    CASE x.t = "string" -> ParseIntStr(x.s)
      [] x.t = "number" -> Int32(x.n)
      [] OTHER -> NaN

(***************************************************************************)
(* The validation gate of POST /api/donate.                                *)
(***************************************************************************)
\* a list of blood groups that also holds a lower-case entry
validBloodGroupsLower ==
    { <<"A", "+">>, <<"A", "-">>, <<"B", "+">>, <<"B", "-">>,
      <<"A", "B", "+">>, <<"A", "B", "-">>, <<"O", "+">>, <<"O", "-">>,
      <<"a", "+">> }

validBloodGroups ==
    { <<"A", "+">>, <<"A", "-">>, <<"B", "+">>, <<"B", "-">>,
      <<"A", "B", "+">>, <<"A", "B", "-">>, <<"O", "+">>, <<"O", "-">> }

\* a list of years that also holds a lower-case entry
validYearsLower ==
    { <<"F", "Y">>, <<"S", "Y">>, <<"T", "Y">>,
      <<"F", "i", "n", "a", "l", " ", "Y", "e", "a", "r">>, <<"f", "y">> }

validYears ==
    { <<"F", "Y">>, <<"S", "Y">>, <<"T", "Y">>,
      <<"F", "i", "n", "a", "l", " ", "Y", "e", "a", "r">> }

\* Array.prototype.includes on an array of strings: only a string is found
Includes(arr, x) == x.t = "string" /\ x.s \in arr

MinAge == 18

MsgNotConfigured == "Database not configured"
MsgNotConfiguredDonate == "Database not configured. Please contact administrator."
MsgRequired == "All fields are required"
MsgAge == "Donor must be at least 18 years old"
MsgBloodGroup == "Invalid blood group"
MsgYear == "Invalid year selection"
MsgServerError == "Server error. Please try again later."
MsgRegistered == "Donation registered successfully"
MsgSynced == "Stats synced"
MsgSyncError == "Error syncing statistics"
MsgStatsError == "Error fetching statistics"
MsgDonorsError == "Error fetching donors"
MsgNone == ""

\* a validation without the check of the age
ValidationMessageNoAge(body) ==
    IF ~Truthy(body.fullName) \/ ~Truthy(body.bloodGroup)
         \/ ~Truthy(body.age) \/ ~Truthy(body.year)
    THEN MsgRequired
    ELSE IF ~Includes(validBloodGroups, body.bloodGroup)
    THEN MsgBloodGroup
    ELSE IF ~Includes(validYears, body.year)
    THEN MsgYear
    ELSE MsgNone

\* the four checks of the handler in the order of the code; "" when all pass
ValidationMessage(body) ==
    IF ~Truthy(body.fullName) \/ ~Truthy(body.bloodGroup)
         \/ ~Truthy(body.age) \/ ~Truthy(body.year)
    THEN MsgRequired
    ELSE IF isNaN(parseInt(body.age)) \/ parseInt(body.age).v < MinAge
    THEN MsgAge
    ELSE IF ~Includes(validBloodGroups, body.bloodGroup)
    THEN MsgBloodGroup
    ELSE IF ~Includes(validYears, body.year)
    THEN MsgYear
    ELSE MsgNone

\* the document built for insertOne; fullName.trim() throws on a non-string
TrimThrows(body) == body.fullName.t # "string"

DonorDoc(body, date) ==
    [fullName |-> Trim(body.fullName.s), bloodGroup |-> body.bloodGroup.s,
     age |-> parseInt(body.age).v, year |-> body.year.s, donatedAt |-> date]

(***************************************************************************)
(* State.                                                                  *)
(***************************************************************************)
VARIABLES
    browser,            \* the pages of the client: form, dashboard, thankYou
    process,            \* the process: exit code and signal handlers
    DEBUG,              \* process.env.DEBUG, Undefined when it is not set
    MONGODB_URI,        \* TRUE when the connection string is provided
    serving,            \* requests reach the module: at once through its
                        \* exports, after app.listen under startServer
    mongoClient,        \* the module variables, TRUE when not null
    mongoDB,
    donorsCollection,
    statsCollection,
    initPc,             \* position of the one running initMongo call,
                        \* "done" at its end, "failed" after its catch
    donors,             \* the donors collection, in insertion order
    stats,              \* the stats collection, in insertion order
    now,                \* the clock read by new Date()
    req,                \* the requests in flight, one record per slot
    res,                \* the response sent last, none once a request is admitted
    failures,           \* history: number of storage calls that failed
    incFailed,          \* history: an increment failed after its insert
    batch,              \* history: the donations since the last quiescent state
    lastSync            \* history: the recounts since the last other write

vars == <<browser, process, DEBUG, MONGODB_URI, serving, mongoClient, mongoDB, donorsCollection,
          statsCollection, initPc, donors, stats, now, req, res, failures,
          incFailed, batch, lastSync>>

serverVars == <<process, DEBUG, MONGODB_URI, serving, mongoClient, mongoDB,
                donorsCollection, statsCollection, initPc, donors, stats, now,
                req, res, failures, incFailed, batch, lastSync>>

clientVars == <<mongoClient, mongoDB, donorsCollection, statsCollection>>
failVars == <<failures, incFailed>>

Reqs == 1..MaxReq

NoBody == [fullName |-> Undefined, bloodGroup |-> Undefined,
           age |-> Undefined, year |-> Undefined]

\* the null of a response field
Null == -1

\* the signals with a handler
Signals == {"SIGTERM", "SIGINT"}

\* exited: process.exit was called, with code; handlers: the signal
\* handlers, "closing" while one awaits shutdownMongo; closeCalls
\* (history): the calls of mongoClient.close(); closeFailed (history): one
\* of them threw
Started ==
    [exited |-> FALSE, code |-> Null,
     handlers |-> [s \in Signals |-> "none"],
     closeCalls |-> 0, closeFailed |-> FALSE]

\* query: req.query.limit; date: the Date argument of the pending storage
\* call; count: the result of countDocuments; limit: the argument of
\* limit(); solo (history): no donation entered the storage since this
\* request began
IdleReq ==
    [pc |-> "idle", kind |-> "none", body |-> NoBody, query |-> Undefined,
     date |-> 0, count |-> 0, limit |-> 0, solo |-> FALSE]

\* a thrown error: its message and its stack, "" when the property is empty
StorageErrors ==
    {[message |-> "connection closed", stack |-> "at Connection.onClose"],
     [message |-> "", stack |-> ""]}

\* fullName.trim is not a function
TypeError == [message |-> "trim is not a function", stack |-> "at donate"]

\* a payload without _debug
NoDebug == [message |-> "", stack |-> ""]

\* { message: error.message || String(error), stack: error.stack || null }
DebugOf(error) ==
    [message |-> IF error.message # "" THEN error.message ELSE "Error",
     stack |-> IF error.stack # "" THEN error.stack ELSE "null"]

\* data: totalUnits or totalBloodUnits; lastUpdated: data.lastUpdated;
\* list: the array of data (the donors) or the health summary; debug: _debug
NoRes ==
    [kind |-> "none", body |-> NoBody, status |-> 0, message |-> MsgNone,
     data |-> -1, lastUpdated |-> Null, list |-> <<>>, debug |-> NoDebug]

\* fresh: the last write of the collections was a recount that ran with no
\* donation in flight; drifted: the first recount of that run found another
\* total or no aggregate; again: that run has more than one recount
NoSync == [fresh |-> FALSE, drifted |-> FALSE, again |-> FALSE]

\* the first document matching { identifier: 'global' }, 0 when there is none
RECURSIVE FindGlobalFrom(_, _)
FindGlobalFrom(coll, i) ==
    IF i > Len(coll) THEN 0
    ELSE IF coll[i].identifier = "global" THEN i
    ELSE FindGlobalFrom(coll, i + 1)

FindGlobal(coll) == FindGlobalFrom(coll, 1)

\* the aggregate total, 0 when there is no aggregate document
Total(coll) ==
    IF FindGlobal(coll) = 0 THEN 0 ELSE coll[FindGlobal(coll)].total_blood_units

\* an increment done as a write of 1: $set where the code has $inc
IncrementStatsSet(coll, date) ==
    IF FindGlobal(coll) = 0
    THEN Append(coll, [identifier |-> "global", total_blood_units |-> 1,
                       last_updated |-> date])
    ELSE [coll EXCEPT ![FindGlobal(coll)] =
            [@ EXCEPT !.total_blood_units = 1, !.last_updated = date]]

\* findOneAndUpdate with $inc, $set and upsert: true
IncrementStats(coll, date) ==
    IF FindGlobal(coll) = 0
    THEN Append(coll, [identifier |-> "global", total_blood_units |-> 1,
                       last_updated |-> date])
    ELSE [coll EXCEPT ![FindGlobal(coll)] =
            [@ EXCEPT !.total_blood_units = @ + 1, !.last_updated = date]]

\* a recount without upsert: nothing is written when there is no aggregate
SetStatsNoUpsert(coll, count, date) ==
    IF FindGlobal(coll) = 0
    THEN coll
    ELSE [coll EXCEPT ![FindGlobal(coll)] =
            [@ EXCEPT !.total_blood_units = count, !.last_updated = date]]

\* a recount that adds the count to the total: $inc where the code has $set
SetStatsInc(coll, count, date) ==
    IF FindGlobal(coll) = 0
    THEN Append(coll, [identifier |-> "global", total_blood_units |-> count,
                       last_updated |-> date])
    ELSE [coll EXCEPT ![FindGlobal(coll)] =
            [@ EXCEPT !.total_blood_units = @ + count, !.last_updated = date]]

\* updateOne with $set and upsert: true
SetStats(coll, count, date) ==
    IF FindGlobal(coll) = 0
    THEN Append(coll, [identifier |-> "global", total_blood_units |-> count,
                       last_updated |-> date])
    ELSE [coll EXCEPT ![FindGlobal(coll)] =
            [@ EXCEPT !.total_blood_units = count, !.last_updated = date]]

\* a request between its arrival and its response
InFlight(r) == req[r].pc # "idle"
DonationInFlight == \E r \in Reqs : req[r].kind = "donate" /\ InFlight(r)
InitReturned == initPc \in {"done", "failed"}
InitRunning == initPc # "idle" /\ ~InitReturned
Quiescent == ~InitRunning /\ \A r \in Reqs : ~InFlight(r)

\* donors0, total0: the sizes when the batch began; n: donations admitted;
\* ok: donations answered 201; overlap: two donations were in flight at once;
\* clean: no storage failure and no recount in the batch
FreshBatch ==
    [donors0 |-> Len(donors), total0 |-> Total(stats), n |-> 0, ok |-> 0,
     overlap |-> FALSE, clean |-> TRUE]

\* a storage failure or a recount ends the history of the batch
Unclean(b) ==
    [donors0 |-> 0, total0 |-> 0, n |-> 0, ok |-> 0, overlap |-> FALSE,
     clean |-> FALSE]

Admit(b) ==
    IF b.clean
    THEN [b EXCEPT !.n = @ + 1, !.overlap = @ \/ DonationInFlight]
    ELSE b

Answered(b) == IF b.clean THEN [b EXCEPT !.ok = @ + 1] ELSE b

\* res.status(status).json(...): request r is answered and is over
Respond(r, kind, body, status, message, data) ==
    /\ req' = [req EXCEPT ![r] = IdleReq]
    /\ res' = [NoRes EXCEPT !.kind = kind, !.body = body, !.status = status,
                            !.message = message, !.data = data]

\* a respondError that sends the detail of the error whatever DEBUG is
respondErrorAlways(r, kind, body, status, message, error) ==
    /\ req' = [req EXCEPT ![r] = IdleReq]
    /\ res' = [NoRes EXCEPT !.kind = kind, !.body = body, !.status = status,
                            !.message = message, !.debug = DebugOf(error)]

\* respondError(res, status, message, error) of a catch block: _debug is
\* added when process.env.DEBUG === 'true'
respondError(r, kind, body, status, message, error) ==
    /\ req' = [req EXCEPT ![r] = IdleReq]
    /\ res' = [NoRes EXCEPT !.kind = kind, !.body = body, !.status = status,
                            !.message = message,
                            !.debug = IF DEBUG = Str(<<"t", "r", "u", "e">>)
                                      THEN DebugOf(error) ELSE NoDebug]

\* a donation entering the storage takes the recounts in flight out of "solo"
NotSolo(q) == [r \in Reqs |-> [q[r] EXCEPT !.solo = FALSE]]

(***************************************************************************)
(* initMongo, cut at its awaits.                                           *)
(***************************************************************************)
\* a storage call may fail, at most MaxFailures times in a behaviour
MayFail == failures < MaxFailures

\* the catch block of initMongo: the error is logged, the call returns
InitFails ==
    /\ MayFail
    /\ initPc' = "failed"
    /\ failures' = failures + 1
    /\ batch' = Unclean(batch)
    /\ UNCHANGED <<stats, clientVars, incFailed>>

\* a connect whose catch forgets the client, so that the next request
\* initialises again
InitConnectForget ==
    /\ initPc = "connect"
    /\ \/ /\ mongoDB' = TRUE
          /\ donorsCollection' = TRUE
          /\ statsCollection' = TRUE
          /\ initPc' = "findStats"
          /\ UNCHANGED <<mongoClient, stats, failVars, batch>>
       \/ /\ MayFail
          /\ initPc' = "failed"
          /\ mongoClient' = FALSE
          /\ failures' = failures + 1
          /\ batch' = Unclean(batch)
          /\ UNCHANGED <<stats, mongoDB, donorsCollection, statsCollection,
                         incFailed>>
    /\ UNCHANGED <<browser, process, DEBUG, MONGODB_URI, serving, donors, now, req, res, lastSync>>

\* await mongoClient.connect(), then the collections are assigned and
\* findOne is issued
InitConnect ==
    /\ initPc = "connect"
    /\ \/ /\ mongoDB' = TRUE
          /\ donorsCollection' = TRUE
          /\ statsCollection' = TRUE
          /\ initPc' = "findStats"
          /\ UNCHANGED <<mongoClient, stats, failVars, batch>>
       \/ InitFails
    /\ UNCHANGED <<browser, process, DEBUG, MONGODB_URI, serving, donors, now, req, res, lastSync>>

\* await statsCollection.findOne(...), then insertOne is issued when no
\* document was found, createIndex otherwise
InitFindStats ==
    /\ initPc = "findStats"
    /\ \/ /\ initPc' = IF FindGlobal(stats) = 0 THEN "insertStats" ELSE "index1"
          /\ UNCHANGED <<clientVars, stats, failVars, batch>>
       \/ InitFails
    /\ UNCHANGED <<browser, process, DEBUG, MONGODB_URI, serving, donors, now, req, res, lastSync>>

\* an initialisation that writes total 0 over the aggregate found by then
InitInsertStatsReset ==
    /\ initPc = "insertStats"
    /\ \/ /\ stats' = SetStats(stats, 0, now)
          /\ initPc' = "index1"
          /\ lastSync' = NoSync
          /\ UNCHANGED <<clientVars, failVars, batch>>
       \/ InitFails /\ UNCHANGED lastSync
    /\ UNCHANGED <<browser, process, DEBUG, MONGODB_URI, serving, donors, now, req, res>>

\* await statsCollection.insertOne({identifier: 'global', total_blood_units: 0})
InitInsertStats ==
    /\ initPc = "insertStats"
    /\ \/ /\ stats' = Append(stats, [identifier |-> "global",
                                      total_blood_units |-> 0,
                                      last_updated |-> now])
          /\ initPc' = "index1"
          /\ lastSync' = NoSync
          /\ UNCHANGED <<clientVars, failVars, batch>>
       \/ InitFails /\ UNCHANGED lastSync
    /\ UNCHANGED <<browser, process, DEBUG, MONGODB_URI, serving, donors, now, req, res>>

\* the two await donorsCollection.createIndex(...)
InitIndex ==
    /\ initPc \in {"index1", "index2"}
    /\ \/ /\ initPc' = IF initPc = "index1" THEN "index2" ELSE "done"
          /\ UNCHANGED <<clientVars, stats, failVars, batch>>
       \/ InitFails
    /\ UNCHANGED <<browser, process, DEBUG, MONGODB_URI, serving, donors, now, req, res, lastSync>>

\* startServer: await initMongo(), then app.listen
StartServer ==
    /\ ~serving
    /\ initPc = "idle"
    /\ IF MONGODB_URI
       THEN /\ mongoClient' = TRUE
            /\ initPc' = "connect"
            /\ UNCHANGED serving
       ELSE /\ serving' = TRUE
            /\ UNCHANGED <<mongoClient, initPc>>
    /\ UNCHANGED <<browser, process, DEBUG, MONGODB_URI, mongoDB, donorsCollection, statsCollection,
                   donors, stats, now, req, res, failVars, batch, lastSync>>

Listen ==
    /\ ~serving
    /\ InitReturned
    /\ serving' = TRUE
    /\ UNCHANGED <<browser, process, DEBUG, MONGODB_URI, clientVars, initPc, donors, stats, now, req,
                   res, failVars, batch, lastSync>>

(***************************************************************************)
(* The route handlers, cut at their awaits.  The first part of a handler   *)
(* runs in the step that dispatches the request; b is the batch history    *)
(* at that point.                                                          *)
(***************************************************************************)
\* a handler that validates the body before it looks at the collections
DonateBeginValidateFirst(r, body, b) ==
    IF ValidationMessage(body) # MsgNone
    THEN /\ Respond(r, "donate", body, 400, ValidationMessage(body), -1)
         /\ batch' = b
    ELSE IF ~donorsCollection \/ ~statsCollection
    THEN /\ Respond(r, "donate", body, 500, MsgNotConfiguredDonate, -1)
         /\ batch' = Unclean(b)
    ELSE IF TrimThrows(body)
    THEN /\ respondError(r, "donate", body, 500, MsgServerError, TypeError)
         /\ batch' = b
    ELSE /\ req' = [NotSolo(req) EXCEPT ![r] =
                      [IdleReq EXCEPT !.pc = "insert", !.kind = "donate",
                                      !.body = body, !.date = now]]
         /\ batch' = Admit(b)
         /\ res' = NoRes

\* POST /api/donate up to the call of insertOne
DonateBegin(r, body, b) ==
    IF ~donorsCollection \/ ~statsCollection
    THEN /\ Respond(r, "donate", body, 500, MsgNotConfiguredDonate, -1)
         /\ batch' = Unclean(b)
    ELSE IF ValidationMessage(body) # MsgNone
    THEN /\ Respond(r, "donate", body, 400, ValidationMessage(body), -1)
         /\ batch' = b
    ELSE IF TrimThrows(body)
    THEN /\ respondError(r, "donate", body, 500, MsgServerError, TypeError)
         /\ batch' = b
    ELSE /\ req' = [NotSolo(req) EXCEPT ![r] =
                      [IdleReq EXCEPT !.pc = "insert", !.kind = "donate",
                                      !.body = body, !.date = now]]
         /\ batch' = Admit(b)
         /\ res' = NoRes

\* POST /api/sync-stats up to the call of countDocuments
SyncBegin(r, b) ==
    IF ~donorsCollection \/ ~statsCollection
    THEN /\ Respond(r, "sync", NoBody, 500, MsgNotConfigured, -1)
         /\ batch' = Unclean(b)
    ELSE /\ req' = [req EXCEPT ![r] =
                      [IdleReq EXCEPT !.pc = "count", !.kind = "sync",
                                      !.solo = ~DonationInFlight]]
         /\ batch' = Unclean(b)
         /\ res' = NoRes

\* a handler that looks at the client where the code looks at the collection
StatsBeginClientGuard(r, b) ==
    IF ~mongoClient
    THEN /\ Respond(r, "stats", NoBody, 500, MsgNotConfigured, -1)
         /\ batch' = Unclean(b)
    ELSE /\ req' = [req EXCEPT ![r] =
                      [IdleReq EXCEPT !.pc = "findStats", !.kind = "stats"]]
         /\ batch' = b
         /\ res' = NoRes

\* GET /api/stats up to the call of findOne
StatsBegin(r, b) ==
    IF ~statsCollection
    THEN /\ Respond(r, "stats", NoBody, 500, MsgNotConfigured, -1)
         /\ batch' = Unclean(b)
    ELSE /\ req' = [req EXCEPT ![r] =
                      [IdleReq EXCEPT !.pc = "findStats", !.kind = "stats"]]
         /\ batch' = b
         /\ res' = NoRes

DefaultLimit == 10

\* a default that replaces NaN only: isNaN(n) ? 10 : n
ParseLimitNaNOnly(query) ==
    IF isNaN(parseInt(query)) THEN DefaultLimit ELSE parseInt(query).v

\* parseInt(req.query.limit) || 10: NaN and 0 are falsy
ParseLimit(query) ==
    IF isNaN(parseInt(query)) \/ parseInt(query).v = 0
    THEN DefaultLimit
    ELSE parseInt(query).v

\* a handler that looks at the client where the code looks at the collection
DonorsBeginClientGuard(r, query, b) ==
    IF ~mongoClient
    THEN /\ Respond(r, "donors", NoBody, 500, MsgNotConfigured, -1)
         /\ batch' = Unclean(b)
    ELSE /\ req' = [req EXCEPT ![r] =
                      [IdleReq EXCEPT !.pc = "find", !.kind = "donors",
                                      !.query = query,
                                      !.limit = ParseLimit(query),
                                      !.solo = /\ res.kind = "donate"
                                               /\ res.status = 201
                                               /\ ~DonationInFlight]]
         /\ batch' = b
         /\ UNCHANGED res

\* GET /api/donors up to the call of find().sort().limit().toArray(); solo
\* (history): the response sent last is the 201 of a donation and no donation
\* is in flight
DonorsBegin(r, query, b) ==
    IF ~donorsCollection
    THEN /\ Respond(r, "donors", NoBody, 500, MsgNotConfigured, -1)
         /\ batch' = Unclean(b)
    ELSE /\ req' = [req EXCEPT ![r] =
                      [IdleReq EXCEPT !.pc = "find", !.kind = "donors",
                                      !.query = query,
                                      !.limit = ParseLimit(query),
                                      !.solo = /\ res.kind = "donate"
                                               /\ res.status = 201
                                               /\ ~DonationInFlight]]
         /\ batch' = b
         /\ UNCHANGED res

\* GET /api/health: no await, the summary of the module variables
HealthBegin(r, b) ==
    /\ req' = [req EXCEPT ![r] = IdleReq]
    /\ res' = [NoRes EXCEPT !.kind = "health", !.status = 200,
                            !.list = <<[configured |-> mongoClient,
                                        connected |-> mongoDB,
                                        donors |-> donorsCollection,
                                        stats |-> statsCollection]>>]
    /\ batch' = b

\* app(req, res): the router runs the handler of the route
App(r, kind, body, query, b) ==
    CASE kind = "donate" -> DonateBegin(r, body, b)
      [] kind = "sync" -> SyncBegin(r, b)
      [] kind = "stats" -> StatsBegin(r, b)
      [] kind = "donors" -> DonorsBegin(r, query, b)
      [] kind = "health" -> HealthBegin(r, b)

\* an arriving request takes the first slot that holds no request in flight
FreeSlot(r) == ~InFlight(r) /\ \A o \in Reqs : o < r => InFlight(o)

\* a donation that will reach insertOne; their number is bounded
WillInsert(kind, body) ==
    kind = "donate" /\ ValidationMessage(body) = MsgNone /\ ~TrimThrows(body)

Pending ==
    Cardinality({r \in Reqs : req[r].kind = "donate"
                                /\ req[r].pc \in {"awaitInit", "insert"}})

Admissible(r, kind, body) ==
    /\ serving
    /\ FreeSlot(r)
    /\ WillInsert(kind, body) => Len(donors) + Pending < MaxDonors

\* a request reaches the Express app directly (app.listen, or the exported app)
Arrive(r, kind, body, query) ==
    /\ Admissible(r, kind, body)
    /\ App(r, kind, body, query, IF Quiescent THEN FreshBatch ELSE batch)
    /\ UNCHANGED <<browser, process, DEBUG, MONGODB_URI, serving, clientVars, initPc, donors, stats, now,
                   failVars, lastSync>>

\* a handler that starts initMongo as long as there is no database handle
VercelHandlerNoDb(r, kind, body, query) ==
    /\ Admissible(r, kind, body)
    /\ IF ~mongoDB /\ MONGODB_URI
       THEN /\ mongoClient' = TRUE
            /\ initPc' = "connect"
            /\ req' = [(IF kind = "donate" THEN NotSolo(req) ELSE req) EXCEPT ![r] =
                         [IdleReq EXCEPT !.pc = "awaitInit", !.kind = kind,
                                         !.body = body, !.query = query]]
            /\ batch' = IF Quiescent THEN FreshBatch ELSE batch
            /\ res' = NoRes
       ELSE /\ App(r, kind, body, query,
                   IF Quiescent THEN FreshBatch ELSE batch)
            /\ UNCHANGED <<mongoClient, initPc>>
    /\ UNCHANGED <<browser, process, DEBUG, MONGODB_URI, serving, mongoDB, donorsCollection,
                   statsCollection, donors, stats, now, failVars, lastSync>>

\* vercelHandler: initMongo is awaited first when there is no client yet; it
\* returns at once when the connection string is absent
VercelHandler(r, kind, body, query) ==
    /\ Admissible(r, kind, body)
    /\ IF ~mongoClient /\ MONGODB_URI
       THEN /\ mongoClient' = TRUE
            /\ initPc' = "connect"
            /\ req' = [(IF kind = "donate" THEN NotSolo(req) ELSE req) EXCEPT ![r] =
                         [IdleReq EXCEPT !.pc = "awaitInit", !.kind = kind,
                                         !.body = body, !.query = query]]
            /\ batch' = IF Quiescent THEN FreshBatch ELSE batch
            /\ res' = NoRes
       ELSE /\ App(r, kind, body, query,
                   IF Quiescent THEN FreshBatch ELSE batch)
            /\ UNCHANGED <<mongoClient, initPc>>
    /\ UNCHANGED <<browser, process, DEBUG, MONGODB_URI, serving, mongoDB, donorsCollection,
                   statsCollection, donors, stats, now, failVars, lastSync>>

\* vercelHandler after await initMongo(): return app(req, res)
VercelResume(r) ==
    /\ req[r].pc = "awaitInit"
    /\ InitReturned
    /\ App(r, req[r].kind, req[r].body, req[r].query, batch)
    /\ UNCHANGED <<browser, process, DEBUG, MONGODB_URI, serving, clientVars, initPc, donors, stats, now,
                   failVars, lastSync>>

\* a catch block that undoes the insert when the increment has failed
FailsRollback(r, message) ==
    /\ MayFail
    /\ \E error \in StorageErrors :
          respondError(r, req[r].kind, req[r].body, 500, message, error)
    /\ failures' = failures + 1
    /\ incFailed' = (incFailed \/ req[r].pc = "increment")
    /\ batch' = Unclean(batch)
    /\ donors' = IF req[r].pc = "increment" /\ donors # <<>>
                  THEN SubSeq(donors, 1, Len(donors) - 1) ELSE donors
    /\ UNCHANGED <<stats, lastSync>>

\* a storage call of request r fails: the catch block answers 500
Fails(r, message) ==
    /\ MayFail
    /\ \E error \in StorageErrors :
          respondError(r, req[r].kind, req[r].body, 500, message, error)
    /\ failures' = failures + 1
    /\ incFailed' = (incFailed \/ req[r].pc = "increment")
    /\ batch' = Unclean(batch)
    /\ UNCHANGED <<donors, stats, lastSync>>

\* an insert whose error is swallowed: the handler goes on to the increment
DonateInsertSwallow(r) ==
    /\ req[r].kind = "donate"
    /\ req[r].pc = "insert"
    /\ \/ /\ donors' = Append(donors, DonorDoc(req[r].body, req[r].date))
          /\ req' = [req EXCEPT ![r].pc = "increment", ![r].date = now]
          /\ lastSync' = NoSync
          /\ UNCHANGED <<stats, res, failVars, batch>>
       \/ /\ MayFail
          /\ failures' = failures + 1
          /\ req' = [req EXCEPT ![r].pc = "increment", ![r].date = now]
          /\ batch' = Unclean(batch)
          /\ UNCHANGED <<donors, stats, res, incFailed, lastSync>>
    /\ UNCHANGED <<browser, process, DEBUG, MONGODB_URI, serving, clientVars, initPc, now>>

\* await donorsCollection.insertOne(donorDoc), then findOneAndUpdate is issued
DonateInsert(r) ==
    /\ req[r].kind = "donate"
    /\ req[r].pc = "insert"
    /\ \/ /\ donors' = Append(donors, DonorDoc(req[r].body, req[r].date))
          /\ req' = [req EXCEPT ![r].pc = "increment", ![r].date = now]
          /\ lastSync' = NoSync
          /\ UNCHANGED <<stats, res, failVars, batch>>
       \/ Fails(r, MsgServerError)
    /\ UNCHANGED <<browser, process, DEBUG, MONGODB_URI, serving, clientVars, initPc, now>>

\* what findOneAndUpdate resolves to: the updated document itself
\* (mongodb ^7.0.0, no includeResultMetadata)
FindOneAndUpdateResult(coll) == coll[FindGlobal(coll)]

\* a fallback of 0 where the code has 1
TotalUnitsZero(statsRes) ==
    IF "value" \in DOMAIN statsRes THEN statsRes.value.total_blood_units ELSE 0

\* statsRes.value ? statsRes.value.total_blood_units : 1
TotalUnits(statsRes) ==
    IF "value" \in DOMAIN statsRes THEN statsRes.value.total_blood_units ELSE 1

\* an increment that is retried after its error, when the first attempt
\* had been applied by the store
DonateIncrementRetry(r) ==
    /\ req[r].kind = "donate"
    /\ req[r].pc = "increment"
    /\ \/ /\ stats' = IncrementStats(stats, req[r].date)
          /\ Respond(r, "donate", req[r].body, 201, MsgRegistered,
                     TotalUnits(FindOneAndUpdateResult(stats')))
          /\ batch' = Answered(batch)
          /\ lastSync' = NoSync
          /\ UNCHANGED <<donors, failVars>>
       \/ /\ MayFail
          /\ failures' = failures + 1
          /\ stats' = IncrementStats(IncrementStats(stats, req[r].date),
                                     req[r].date)
          /\ Respond(r, "donate", req[r].body, 201, MsgRegistered,
                     TotalUnits(FindOneAndUpdateResult(stats')))
          /\ batch' = Unclean(batch)
          /\ lastSync' = NoSync
          /\ UNCHANGED <<donors, incFailed>>
    /\ UNCHANGED <<browser, process, DEBUG, MONGODB_URI, serving, clientVars, initPc, now>>

\* await statsCollection.findOneAndUpdate(...), then the 201 response
DonateIncrement(r) ==
    /\ req[r].kind = "donate"
    /\ req[r].pc = "increment"
    /\ \/ /\ stats' = IncrementStats(stats, req[r].date)
          /\ Respond(r, "donate", req[r].body, 201, MsgRegistered,
                     TotalUnits(FindOneAndUpdateResult(stats')))
          /\ batch' = Answered(batch)
          /\ lastSync' = NoSync
          /\ UNCHANGED <<donors, failVars>>
       \/ Fails(r, MsgServerError)
    /\ UNCHANGED <<browser, process, DEBUG, MONGODB_URI, serving, clientVars, initPc, now>>

\* a recount that leaves one record out of the count
SyncCountOffByOne(r) ==
    /\ req[r].kind = "sync"
    /\ req[r].pc = "count"
    /\ \/ /\ req' = [req EXCEPT ![r].pc = "update",
                                ![r].count = Len(donors) - 1, ![r].date = now]
          /\ UNCHANGED <<donors, stats, res, failVars, batch, lastSync>>
       \/ Fails(r, MsgSyncError)
    /\ UNCHANGED <<browser, process, DEBUG, MONGODB_URI, serving, clientVars, initPc, now>>

\* await donorsCollection.countDocuments(), then updateOne is issued
SyncCount(r) ==
    /\ req[r].kind = "sync"
    /\ req[r].pc = "count"
    /\ \/ /\ req' = [req EXCEPT ![r].pc = "update", ![r].count = Len(donors),
                                ![r].date = now]
          /\ UNCHANGED <<donors, stats, res, failVars, batch, lastSync>>
       \/ Fails(r, MsgSyncError)
    /\ UNCHANGED <<browser, process, DEBUG, MONGODB_URI, serving, clientVars, initPc, now>>

\* await statsCollection.updateOne(...), then the 200 response
SyncUpdate(r) ==
    /\ req[r].kind = "sync"
    /\ req[r].pc = "update"
    /\ \/ /\ stats' = SetStats(stats, req[r].count, req[r].date)
          /\ Respond(r, "sync", NoBody, 200, MsgSynced, req[r].count)
          /\ lastSync' =
                IF ~req[r].solo THEN NoSync
                ELSE IF lastSync.fresh
                THEN [lastSync EXCEPT !.again = TRUE]
                ELSE [fresh |-> TRUE,
                      drifted |-> FindGlobal(stats) = 0
                                    \/ Total(stats) # req[r].count,
                      again |-> FALSE]
          /\ UNCHANGED <<donors, failVars, batch>>
       \/ Fails(r, MsgSyncError)
    /\ UNCHANGED <<browser, process, DEBUG, MONGODB_URI, serving, clientVars, initPc, now>>

\* parseInt(doc.total_blood_units || 0, 10) of a stored non-negative integer
StatsTotal(coll) ==
    IF FindGlobal(coll) = 0 THEN 0
    ELSE parseInt(Num(coll[FindGlobal(coll)].total_blood_units)).v

\* a timestamp that is the epoch when there is no document
StatsLastUpdatedEpoch(coll) ==
    IF FindGlobal(coll) = 0 THEN 0 ELSE coll[FindGlobal(coll)].last_updated

\* doc ? doc.last_updated : null
StatsLastUpdated(coll) ==
    IF FindGlobal(coll) = 0 THEN Null ELSE coll[FindGlobal(coll)].last_updated

\* await statsCollection.findOne(...), then the 200 response
StatsFind(r) ==
    /\ req[r].kind = "stats"
    /\ req[r].pc = "findStats"
    /\ \/ /\ req' = [req EXCEPT ![r] = IdleReq]
          /\ res' = [NoRes EXCEPT !.kind = "stats", !.status = 200,
                                  !.data = StatsTotal(stats),
                                  !.lastUpdated = StatsLastUpdated(stats)]
          /\ UNCHANGED <<donors, stats, failVars, batch, lastSync>>
       \/ Fails(r, MsgStatsError)
    /\ UNCHANGED <<browser, process, DEBUG, MONGODB_URI, serving, clientVars, initPc, now>>

\* sort({ donatedAt: -1 }) leaves the order of equal timestamps to the
\* storage: in the order of insertion, or in the opposite order
TieOrders == {"natural", "reverse"}

\* record i of coll comes before record j in the sorted result
Before(coll, tie, i, j) ==
    \/ coll[i].donatedAt > coll[j].donatedAt
    \/ /\ coll[i].donatedAt = coll[j].donatedAt
       /\ IF tie = "natural" THEN i < j ELSE i > j

\* a sort in the ascending order: sort({ donatedAt: 1 })
SortByDonatedAtAsc(coll, tie) ==
    [k \in 1..Len(coll) |->
        coll[CHOOSE i \in 1..Len(coll) :
                Cardinality({j \in 1..Len(coll) : Before(coll, tie, i, j)}) = k - 1]]

\* find().sort({ donatedAt: -1 })
SortByDonatedAtDesc(coll, tie) ==
    [k \in 1..Len(coll) |->
        coll[CHOOSE i \in 1..Len(coll) :
                Cardinality({j \in 1..Len(coll) : Before(coll, tie, j, i)}) = k - 1]]

\* a query without limit()
LimitNone(docs, n) == docs

\* limit(n): the first |n| documents
Limit(docs, n) ==
    SubSeq(docs, 1, IF (IF n < 0 THEN 0 - n ELSE n) < Len(docs)
                    THEN (IF n < 0 THEN 0 - n ELSE n) ELSE Len(docs))

\* docs.map(d => ({ fullName, bloodGroup, donatedAt }))
Mapped(docs) ==
    [k \in 1..Len(docs) |->
        [fullName |-> docs[k].fullName, bloodGroup |-> docs[k].bloodGroup,
         donatedAt |-> docs[k].donatedAt]]

\* a listing that stamps the aggregate with the time of the read
DonorsFindTouch(r) ==
    /\ req[r].kind = "donors"
    /\ req[r].pc = "find"
    /\ \/ /\ \E tie \in TieOrders :
                res' = [NoRes EXCEPT
                          !.kind = "donors", !.status = 200,
                          !.body = IF req[r].solo /\ res.status = 201
                                   THEN res.body ELSE NoBody,
                          !.list = Mapped(Limit(SortByDonatedAtDesc(donors, tie),
                                                req[r].limit))]
          /\ req' = [req EXCEPT ![r] = IdleReq]
          /\ stats' = SetStats(stats, Total(stats), now)
          /\ UNCHANGED <<donors, failVars, batch, lastSync>>
       \/ Fails(r, MsgDonorsError)
    /\ UNCHANGED <<browser, process, DEBUG, MONGODB_URI, serving, clientVars, initPc, now>>

\* await donorsCollection.find().sort().limit().toArray(), then the 200
\* response; its body (history) is the body of the donation whose 201 this
\* listing followed
DonorsFind(r) ==
    /\ req[r].kind = "donors"
    /\ req[r].pc = "find"
    /\ \/ /\ \E tie \in TieOrders :
                res' = [NoRes EXCEPT
                          !.kind = "donors", !.status = 200,
                          !.body = IF req[r].solo /\ res.status = 201
                                   THEN res.body ELSE NoBody,
                          !.list = Mapped(Limit(SortByDonatedAtDesc(donors, tie),
                                                req[r].limit))]
          /\ req' = [req EXCEPT ![r] = IdleReq]
          /\ UNCHANGED <<donors, stats, failVars, batch, lastSync>>
       \/ Fails(r, MsgDonorsError)
    /\ UNCHANGED <<browser, process, DEBUG, MONGODB_URI, serving, clientVars, initPc, now>>

\* SIGTERM or SIGINT is delivered: shutdownMongo calls mongoClient.close()
\* and awaits it when there is a client; without one it returns at once and
\* the handler calls process.exit(0).  A signal whose handler is awaiting is
\* not delivered again.
Signal(s) ==
    /\ ~process.exited
    /\ process.handlers[s] = "none"
    /\ process' =
          IF mongoClient
          THEN [process EXCEPT !.handlers[s] = "closing", !.closeCalls = @ + 1]
          ELSE [process EXCEPT !.exited = TRUE, !.code = 0]
    /\ UNCHANGED <<browser, DEBUG, MONGODB_URI, serving, clientVars, initPc, donors,
                   stats, now, req, res, failVars, batch, lastSync>>

\* a handler whose shutdownMongo has no catch: the error of close() leaves
\* the handler before process.exit
CloseReturnsUncaught(s) ==
    /\ ~process.exited
    /\ process.handlers[s] = "closing"
    /\ \/ process' = [process EXCEPT !.handlers[s] = "none",
                                      !.exited = TRUE, !.code = 0]
       \/ process' = [process EXCEPT !.handlers[s] = "none",
                                      !.closeFailed = TRUE]
    /\ UNCHANGED <<browser, DEBUG, MONGODB_URI, serving, clientVars, initPc, donors,
                   stats, now, req, res, failVars, batch, lastSync>>

\* await mongoClient.close() returns or throws; the catch of shutdownMongo
\* logs the error, then the handler calls process.exit(0)
CloseReturns(s) ==
    /\ ~process.exited
    /\ process.handlers[s] = "closing"
    /\ \/ process' = [process EXCEPT !.handlers[s] = "none",
                                      !.exited = TRUE, !.code = 0]
       \/ process' = [process EXCEPT !.handlers[s] = "none",
                                      !.exited = TRUE, !.code = 0,
                                      !.closeFailed = TRUE]
    /\ UNCHANGED <<browser, DEBUG, MONGODB_URI, serving, clientVars, initPc, donors,
                   stats, now, req, res, failVars, batch, lastSync>>

(***************************************************************************)
(* The pages of the client, each handler cut at its awaits.                *)
(***************************************************************************)
\* CONFIG.THANK_YOU_DURATION, in seconds
THANK_YOU_DURATION == 10

\* the value of an empty field
Empty == <<>>

NoFields == [fullName |-> Empty, bloodGroup |-> Empty, age |-> Empty, year |-> Empty]

\* the pages after DOMContentLoaded.  form: the values of the fields at the
\* last submit, whether a request was sent for it and its body (history),
\* awaiting: the response is pending, message: formMessage.  dashboard:
\* previousTotal and isFirstLoad of initDashboard, pending: the calls of
\* fetchStats in flight, the first one made at load; outcome, fetched and
\* popup (history): how the last call ended, the total of the last
\* successful call, whether the last call started the celebration.
\* thankYou: countdown, the interval, sessionStorage.donorInfo (info: it
\* was stored when the page loaded), window.location, the number of
\* assignments to it (history) and the number of runs of the callback of
\* the interval (history).
Loaded(info) ==
    [form |-> [fields |-> NoFields, sent |-> FALSE, body |-> NoBody,
               awaiting |-> FALSE, message |-> "none"],
     dashboard |-> [previousTotal |-> 0, isFirstLoad |-> TRUE, pending |-> 1,
                    outcome |-> "none", fetched |-> Null, popup |-> FALSE],
     thankYou |-> [countdown |-> THANK_YOU_DURATION, interval |-> "set",
                   donorInfo |-> info, location |-> "/thank-you",
                   redirects |-> 0, ticks |-> 0]]

\* validateField: !field.value.trim() is an error
validateField(value) == Trim(value) # Empty

\* p < n and p > n of a parsed integer: false for NaN
Less(p, n) == ~isNaN(p) /\ p.v < n
Greater(p, n) == ~isNaN(p) /\ p.v > n

\* the checks of the age in the submit handler
AgeValid(value) ==
    /\ validateField(value)
    /\ ~Less(ParseIntStr(value), 18)
    /\ ~Greater(ParseIntStr(value), 65)

\* isValid at the end of the validation of the submit handler
isValid(f) ==
    /\ validateField(f.fullName)
    /\ validateField(f.bloodGroup)
    /\ AgeValid(f.age)
    /\ validateField(f.year)

\* the null of JSON
JsonNull == [t |-> "null", s |-> <<>>, n |-> 0]

\* JSON.stringify of the result of parseInt: NaN is written as null
JsonNumber(p) == IF isNaN(p) THEN JsonNull ELSE Num(p.v)

\* the body of the request of the submit handler
FormBody(f) ==
    [fullName |-> Str(Trim(f.fullName)), bloodGroup |-> Str(f.bloodGroup),
     age |-> JsonNumber(ParseIntStr(f.age)), year |-> Str(f.year)]

\* the user submits the form with the field values f, one submission at a
\* time: the request is sent when isValid
Submit(f) ==
    /\ ~browser.form.awaiting
    /\ browser' = [browser EXCEPT !.form =
                      [fields |-> f, sent |-> isValid(f),
                       body |-> IF isValid(f) THEN FormBody(f) ELSE NoBody,
                       awaiting |-> isValid(f), message |-> "none"]]
    /\ UNCHANGED serverVars

\* the response of the request: form.reset() and the success message, or
\* the error message of the catch block
SubmitResume ==
    /\ browser.form.awaiting
    /\ \/ browser' = [browser EXCEPT !.form.awaiting = FALSE,
                                      !.form.fields = NoFields,
                                      !.form.message = "success"]
       \/ browser' = [browser EXCEPT !.form.awaiting = FALSE,
                                      !.form.message = "error"]
    /\ UNCHANGED serverVars

\* setInterval(fetchStats, ...): fetchStats is called and awaits apiRequest
Poll ==
    /\ browser.dashboard.pending < MaxReq
    /\ browser' = [browser EXCEPT !.dashboard.pending = @ + 1]
    /\ UNCHANGED serverVars

\* a fetchStats that has no isFirstLoad: the first response celebrates too
FetchStatsResumeNoFirstLoad(total) ==
    /\ browser.dashboard.pending > 0
    /\ browser' = [browser EXCEPT !.dashboard =
          [previousTotal |-> total,
           isFirstLoad |-> FALSE,
           pending |-> @.pending - 1,
           outcome |-> "ok",
           fetched |-> total,
           popup |-> total > @.previousTotal]]
    /\ UNCHANGED serverVars

\* fetchStats after its await, the response carrying totalBloodUnits = total
FetchStatsResume(total) ==
    /\ browser.dashboard.pending > 0
    /\ browser' = [browser EXCEPT !.dashboard =
          [previousTotal |-> IF total # @.previousTotal THEN total
                             ELSE @.previousTotal,
           isFirstLoad |-> FALSE,
           pending |-> @.pending - 1,
           outcome |-> "ok",
           fetched |-> total,
           popup |-> ~@.isFirstLoad /\ total > @.previousTotal]]
    /\ UNCHANGED serverVars

\* fetchStats after its await, apiRequest having thrown: the catch logs
FetchStatsFails ==
    /\ browser.dashboard.pending > 0
    /\ browser' = [browser EXCEPT !.dashboard.pending = @ - 1,
                                  !.dashboard.outcome = "failed",
                                  !.dashboard.popup = FALSE]
    /\ UNCHANGED serverVars

\* a callback that stops below 0: countdown < 0 where the code has <= 0
IntervalTickBelow ==
    /\ browser.thankYou.interval = "set"
    /\ browser.thankYou.location = "/thank-you"
    /\ browser' = [browser EXCEPT !.thankYou =
          IF @.countdown - 1 < 0
          THEN [countdown |-> @.countdown - 1, interval |-> "cleared",
                donorInfo |-> FALSE, location |-> "/dashboard",
                redirects |-> @.redirects + 1, ticks |-> @.ticks + 1]
          ELSE [@ EXCEPT !.countdown = @ - 1, !.ticks = @ + 1]]
    /\ UNCHANGED serverVars

\* the callback of setInterval of the thank-you page: it runs while the
\* interval is set and the page is the current document
IntervalTick ==
    /\ browser.thankYou.interval = "set"
    /\ browser.thankYou.location = "/thank-you"
    /\ browser' = [browser EXCEPT !.thankYou =
          IF @.countdown - 1 <= 0
          THEN [countdown |-> @.countdown - 1, interval |-> "cleared",
                donorInfo |-> FALSE, location |-> "/dashboard",
                redirects |-> @.redirects + 1, ticks |-> @.ticks + 1]
          ELSE [@ EXCEPT !.countdown = @ - 1, !.ticks = @ + 1]]
    /\ UNCHANGED serverVars

\* time passes: new Date() returns a later value
Tick ==
    /\ now < MaxClock
    /\ now' = now + 1
    /\ UNCHANGED <<browser, process, DEBUG, MONGODB_URI, serving, clientVars, initPc, donors, stats, req,
                   res, failVars, batch, lastSync>>

(***************************************************************************)
(* The request bodies the clients send.                                    *)
(***************************************************************************)
AshaRao == <<"A", "s", "h", "a", " ", "R", "a", "o">>

\* the scenario of the specification: Asha Rao, O-, 22, SY
ValidBody ==
    [fullName |-> Str(AshaRao), bloodGroup |-> Str(<<"O", "-">>),
     age |-> Num(22), year |-> Str(<<"S", "Y">>)]

UnderAgeBody == [ValidBody EXCEPT !.age = Num(17)]

Bodies == {ValidBody, UnderAgeBody}

\* a second donor, told from the first by name and blood group
OtherBody ==
    [fullName |-> Str(<<" ", "B", "o", " ">>), bloodGroup |-> Str(<<"A", "B", "+">>),
     age |-> Str(<<"1", "9">>), year |-> Str(<<"F", "Y">>)]

ReadBodies == {ValidBody, OtherBody}

\* the values of ?limit= of GET /api/donors
ListQueries == {Undefined, Str(<<"a", "b", "c">>), Str(<<"1">>), Str(<<"2">>)}
RoundTripQueries == {Str(<<"1">>)}

GateNames == {Undefined, Str(<<>>), Str(<<" ", "A", "b", " ">>), Num(7)}
GateBloodGroups == {Undefined, Str(<<"A", "+">>), Str(<<"a", "+">>)}
GateAges ==
    {Str(<<>>), Num(0), Num(-3), Num(17), Num(18),
     Str(<<"0">>), Str(<<"1", "8">>), Str(<<"a", "b", "c">>)}
GateYears ==
    {Str(<<>>), Str(<<"f", "y">>),
     Str(<<"F", "i", "n", "a", "l", " ", "Y", "e", "a", "r">>)}

GateBodies ==
    [fullName : GateNames, bloodGroup : GateBloodGroups, age : GateAges,
     year : GateYears]

\* bodies at the limits of the name and of the age of a donor record
RecordNames ==
    {Str(<<" ", "A", "b", " ">>), Str(<<"A">>), Str(<<" ">>), Str(<<" ", "A", " ">>)}
RecordAges == {Num(18), Num(100), Num(101), Str(<<"1", "5", "0">>)}

RecordBodies ==
    [fullName : RecordNames, bloodGroup : {Str(<<"A", "+">>)},
     age : RecordAges, year : {Str(<<"F", "Y">>)}]

\* the donor collections of the listings: the i-th record inserted is that of
\* donor "D<i>"
Digits == <<"0", "1", "2", "3", "4", "5", "6", "7", "8", "9">>

DonorName(i) ==
    IF i < 10 THEN <<"D", Digits[i + 1]>>
    ELSE <<"D", Digits[(i \div 10) + 1], Digits[(i % 10) + 1]>>

\* the collection whose i-th record was created at times[i]
CollectionAt(times) ==
    [i \in 1..Len(times) |->
        DonorDoc([fullName |-> Str(DonorName(i)), bloodGroup |-> Str(<<"O", "-">>),
                  age |-> Num(22), year |-> Str(<<"S", "Y">>)], times[i])]

\* donations handled one after the other, the clock advancing between them
SequentialTimes == {[i \in 1..m |-> i - 1] : m \in 0..MaxList}

\* donations handled together: any order of the timestamps, equal ones too
OverlappingTimes ==
    UNION {[1..m -> 0..MaxClock] : m \in 1..MaxDonors}

SortCollections == {CollectionAt(t) : t \in SequentialTimes \cup OverlappingTimes}

SortQueries == ListQueries \cup {Str(<<"1", "2">>)}

(***************************************************************************)
(* Specifications.                                                         *)
(***************************************************************************)
Init ==
    /\ browser = Loaded(TRUE)
    /\ process = Started
    /\ DEBUG = Undefined
    /\ MONGODB_URI \in BOOLEAN
    /\ serving \in BOOLEAN
    /\ mongoClient = FALSE
    /\ mongoDB = FALSE
    /\ donorsCollection = FALSE
    /\ statsCollection = FALSE
    /\ initPc = "idle"
    /\ donors = <<>>
    /\ stats = <<>>
    /\ now = 0
    /\ req = [r \in Reqs |-> IdleReq]
    /\ res = NoRes
    /\ failures = 0
    /\ incFailed = FALSE
    /\ batch = [donors0 |-> 0, total0 |-> 0, n |-> 0, ok |-> 0,
                overlap |-> FALSE, clean |-> TRUE]
    /\ lastSync = NoSync

\* the write path: donations and recounts
Next ==
    \/ StartServer
    \/ Listen
    \/ InitConnect
    \/ InitFindStats
    \/ InitInsertStats
    \/ InitIndex
    \/ Tick
    \/ \E r \in Reqs, body \in Bodies : Arrive(r, "donate", body, Undefined)
    \/ \E r \in Reqs : Arrive(r, "sync", NoBody, Undefined)
    \/ \E r \in Reqs, body \in Bodies : VercelHandler(r, "donate", body, Undefined)
    \/ \E r \in Reqs : VercelHandler(r, "sync", NoBody, Undefined)
    \/ \E r \in Reqs : VercelResume(r)
    \/ \E r \in Reqs : DonateInsert(r)
    \/ \E r \in Reqs : DonateIncrement(r)
    \/ \E r \in Reqs : SyncCount(r)
    \/ \E r \in Reqs : SyncUpdate(r)

Spec == Init /\ [][Next]_vars

\* the round trip: donations of two donors, in flight together or not, and
\* listings
NextList ==
    \/ StartServer
    \/ Listen
    \/ InitConnect
    \/ InitFindStats
    \/ InitInsertStats
    \/ InitIndex
    \/ Tick
    \/ \E r \in Reqs, body \in ReadBodies : Arrive(r, "donate", body, Undefined)
    \/ \E r \in Reqs, query \in RoundTripQueries :
          Arrive(r, "donors", NoBody, query)
    \/ \E r \in Reqs, body \in ReadBodies :
          VercelHandler(r, "donate", body, Undefined)
    \/ \E r \in Reqs, query \in RoundTripQueries :
          VercelHandler(r, "donors", NoBody, query)
    \/ \E r \in Reqs : VercelResume(r)
    \/ \E r \in Reqs : DonateInsert(r)
    \/ \E r \in Reqs : DonateIncrement(r)
    \/ \E r \in Reqs : DonorsFind(r)

SpecList == Init /\ [][NextList]_vars

\* donations and reads of the aggregate
NextStats ==
    \/ StartServer
    \/ Listen
    \/ InitConnect
    \/ InitFindStats
    \/ InitInsertStats
    \/ InitIndex
    \/ Tick
    \/ \E r \in Reqs : Arrive(r, "donate", ValidBody, Undefined)
    \/ \E r \in Reqs : Arrive(r, "stats", NoBody, Undefined)
    \/ \E r \in Reqs : VercelHandler(r, "donate", ValidBody, Undefined)
    \/ \E r \in Reqs : VercelHandler(r, "stats", NoBody, Undefined)
    \/ \E r \in Reqs : VercelResume(r)
    \/ \E r \in Reqs : DonateInsert(r)
    \/ \E r \in Reqs : DonateIncrement(r)
    \/ \E r \in Reqs : StatsFind(r)

SpecStats == Init /\ [][NextStats]_vars

\* every route of the API, one request at a time
NextRoutes ==
    \/ StartServer
    \/ Listen
    \/ InitConnect
    \/ InitFindStats
    \/ InitInsertStats
    \/ InitIndex
    \/ Tick
    \/ \E body \in ReadBodies : Arrive(1, "donate", body, Undefined)
    \/ \E kind \in {"sync", "stats", "health"} :
          Arrive(1, kind, NoBody, Undefined)
    \/ \E query \in ListQueries : Arrive(1, "donors", NoBody, query)
    \/ \E body \in ReadBodies : VercelHandler(1, "donate", body, Undefined)
    \/ \E kind \in {"sync", "stats", "health"} :
          VercelHandler(1, kind, NoBody, Undefined)
    \/ \E query \in ListQueries : VercelHandler(1, "donors", NoBody, query)
    \/ VercelResume(1)
    \/ DonateInsert(1)
    \/ DonateIncrement(1)
    \/ SyncCount(1)
    \/ SyncUpdate(1)
    \/ StatsFind(1)
    \/ DonorsFind(1)

SpecRoutes == Init /\ [][NextRoutes]_vars

\* one donation at a time, with every combination of the field values, at one
\* instant of the clock
NextGate ==
    \/ StartServer
    \/ Listen
    \/ InitConnect
    \/ InitFindStats
    \/ InitInsertStats
    \/ InitIndex
    \/ \E body \in GateBodies : Arrive(1, "donate", body, Undefined)
    \/ \E body \in GateBodies : VercelHandler(1, "donate", body, Undefined)
    \/ VercelResume(1)
    \/ DonateInsert(1)
    \/ DonateIncrement(1)

SpecGate == Init /\ [][NextGate]_vars

\* the listing as a function of the collection and of the limit: the server
\* after a successful initialisation and the donations of a collection
InitSort ==
    /\ browser = Loaded(TRUE)
    /\ process = Started
    /\ DEBUG = Undefined
    /\ MONGODB_URI = TRUE
    /\ serving = TRUE
    /\ mongoClient = TRUE
    /\ mongoDB = TRUE
    /\ donorsCollection = TRUE
    /\ statsCollection = TRUE
    /\ initPc = "done"
    /\ donors \in SortCollections
    /\ stats = <<[identifier |-> "global", total_blood_units |-> Len(donors),
                  last_updated |-> Len(donors)]>>
    /\ now = Len(donors)
    /\ req = [r \in Reqs |-> IdleReq]
    /\ res = NoRes
    /\ failures = 0
    /\ incFailed = FALSE
    /\ batch = FreshBatch
    /\ lastSync = NoSync

NextSort ==
    \/ \E query \in SortQueries : Arrive(1, "donors", NoBody, query)
    \/ DonorsFind(1)

SpecSort == InitSort /\ [][NextSort]_vars

\* one donation at a time, with the bodies at the limits of a donor record
NextRecord ==
    \/ StartServer
    \/ Listen
    \/ InitConnect
    \/ InitFindStats
    \/ InitInsertStats
    \/ InitIndex
    \/ \E body \in RecordBodies : Arrive(1, "donate", body, Undefined)
    \/ \E body \in RecordBodies : VercelHandler(1, "donate", body, Undefined)
    \/ VercelResume(1)
    \/ DonateInsert(1)
    \/ DonateIncrement(1)

SpecRecord == Init /\ [][NextRecord]_vars

\* values of process.env.DEBUG
DebugValues ==
    {Undefined, Str(<<"t", "r", "u", "e">>), Str(<<"T", "R", "U", "E">>),
     Str(<<"1">>)}

\* a body whose fullName is a number: fullName.trim() throws
NumberNameBody == [ValidBody EXCEPT !.fullName = Num(7)]

DebugBodies == {ValidBody, NumberNameBody}

InitDebug ==
    /\ browser = Loaded(TRUE)
    /\ process = Started
    /\ DEBUG \in DebugValues
    /\ MONGODB_URI \in BOOLEAN
    /\ serving \in BOOLEAN
    /\ mongoClient = FALSE
    /\ mongoDB = FALSE
    /\ donorsCollection = FALSE
    /\ statsCollection = FALSE
    /\ initPc = "idle"
    /\ donors = <<>>
    /\ stats = <<>>
    /\ now = 0
    /\ req = [r \in Reqs |-> IdleReq]
    /\ res = NoRes
    /\ failures = 0
    /\ incFailed = FALSE
    /\ batch = FreshBatch
    /\ lastSync = NoSync

\* the error responses under every value of DEBUG, one request at a time
NextDebug ==
    \/ StartServer
    \/ Listen
    \/ InitConnect
    \/ InitFindStats
    \/ InitInsertStats
    \/ InitIndex
    \/ \E body \in DebugBodies : Arrive(1, "donate", body, Undefined)
    \/ \E kind \in {"sync", "stats", "donors"} :
          Arrive(1, kind, NoBody, Undefined)
    \/ \E body \in DebugBodies : VercelHandler(1, "donate", body, Undefined)
    \/ \E kind \in {"sync", "stats", "donors"} :
          VercelHandler(1, kind, NoBody, Undefined)
    \/ VercelResume(1)
    \/ DonateInsert(1)
    \/ DonateIncrement(1)
    \/ SyncCount(1)
    \/ SyncUpdate(1)
    \/ StatsFind(1)
    \/ DonorsFind(1)

SpecDebug == InitDebug /\ [][NextDebug]_vars

\* the module loaded by the serverless platform: the exported handler is
\* the only way in, startServer is not called
InitServerless ==
    /\ browser = Loaded(TRUE)
    /\ process = Started
    /\ DEBUG = Undefined
    /\ MONGODB_URI \in BOOLEAN
    /\ serving = TRUE
    /\ mongoClient = FALSE
    /\ mongoDB = FALSE
    /\ donorsCollection = FALSE
    /\ statsCollection = FALSE
    /\ initPc = "idle"
    /\ donors = <<>>
    /\ stats = <<>>
    /\ now = 0
    /\ req = [r \in Reqs |-> IdleReq]
    /\ res = NoRes
    /\ failures = 0
    /\ incFailed = FALSE
    /\ batch = FreshBatch
    /\ lastSync = NoSync

NextServerless ==
    \/ InitConnect
    \/ InitFindStats
    \/ InitInsertStats
    \/ InitIndex
    \/ \E r \in Reqs : VercelHandler(r, "donate", ValidBody, Undefined)
    \/ \E r \in Reqs, kind \in {"sync", "stats"} :
          VercelHandler(r, kind, NoBody, Undefined)
    \/ \E r \in Reqs : VercelResume(r)
    \/ \E r \in Reqs : DonateInsert(r)
    \/ \E r \in Reqs : DonateIncrement(r)
    \/ \E r \in Reqs : SyncCount(r)
    \/ \E r \in Reqs : SyncUpdate(r)
    \/ \E r \in Reqs : StatsFind(r)

SpecServerless == InitServerless /\ [][NextServerless]_vars

\* the process until its exit: start, requests for the aggregate, signals
NextShutdown ==
    \/ ~process.exited /\ StartServer
    \/ ~process.exited /\ Listen
    \/ ~process.exited /\ InitConnect
    \/ ~process.exited /\ InitFindStats
    \/ ~process.exited /\ InitInsertStats
    \/ ~process.exited /\ InitIndex
    \/ ~process.exited /\ \E r \in Reqs : Arrive(r, "stats", NoBody, Undefined)
    \/ ~process.exited /\ \E r \in Reqs :
                             VercelHandler(r, "stats", NoBody, Undefined)
    \/ ~process.exited /\ \E r \in Reqs : VercelResume(r)
    \/ ~process.exited /\ \E r \in Reqs : StatsFind(r)
    \/ \E s \in Signals : Signal(s)
    \/ \E s \in Signals : CloseReturns(s)

SpecShutdown == Init /\ [][NextShutdown]_vars

\* ?limit=0 and ?limit=00
ZeroQueries == {Str(<<"0">>), Str(<<"0", "0">>)}

LimitQueries == ZeroQueries \cup {Undefined, Str(<<"1">>)}

\* the listing with a limit of 0, of every collection
NextLimit ==
    \/ \E query \in LimitQueries : Arrive(1, "donors", NoBody, query)
    \/ DonorsFind(1)

SpecLimit == InitSort /\ [][NextLimit]_vars

\* the values of the fields of the form
FormNames == {Empty, <<" ">>, AshaRao}
FormBloodGroups == {Empty, <<"O", "-">>}
FormAges ==
    {Empty, <<"1", "7">>, <<"1", "8">>, <<"6", "5">>, <<"6", "6">>,
     <<"a", "b", "c">>}
FormYears == {Empty, <<"S", "Y">>}

FormFields ==
    [fullName : FormNames, bloodGroup : FormBloodGroups, age : FormAges,
     year : FormYears]

\* the pages loaded in a browser whose session storage holds the donor or not
InitBrowser ==
    /\ browser \in {Loaded(info) : info \in BOOLEAN}
    /\ process = Started
    /\ DEBUG = Undefined
    /\ MONGODB_URI = TRUE
    /\ serving = TRUE
    /\ mongoClient = FALSE
    /\ mongoDB = FALSE
    /\ donorsCollection = FALSE
    /\ statsCollection = FALSE
    /\ initPc = "idle"
    /\ donors = <<>>
    /\ stats = <<>>
    /\ now = 0
    /\ req = [r \in Reqs |-> IdleReq]
    /\ res = NoRes
    /\ failures = 0
    /\ incFailed = FALSE
    /\ batch = FreshBatch
    /\ lastSync = NoSync

\* the registration form
NextForm ==
    \/ \E f \in FormFields : Submit(f)
    \/ SubmitResume

SpecForm == InitBrowser /\ [][NextForm]_vars

\* the dashboard and the thank-you page
NextPages ==
    \/ Poll
    \/ \E total \in 0..MaxDonors : FetchStatsResume(total)
    \/ FetchStatsFails
    \/ IntervalTick

SpecPages == InitBrowser /\ [][NextPages]_vars

TypeOK ==
    /\ failures \in 0..MaxFailures
    /\ Len(donors) <= MaxDonors
    /\ now \in 0..MaxClock

(***************************************************************************)
(* Properties.                                                             *)
(***************************************************************************)
\* the step sends a response of a request of this kind (res changes only
\* when a response is sent)
Answers(kind) == res' # res /\ res'.kind = kind

StorageReady == donorsCollection /\ statsCollection

\* the last step of a recount of r that ran with no donation in flight
SoloSyncDone(r) ==
    /\ req[r].kind = "sync" /\ req[r].pc = "update" /\ req[r].solo
    /\ req'[r].pc = "idle"
    /\ res'.status = 200

\* C1: when the valid donations of a batch (the requests between two
\* quiescent states, some of them in flight at once) have all completed, with
\* no storage failure and no recount in the batch, every one of them has been
\* answered 201, the donor collection has grown by their number and so has
\* the aggregate total.
C1_NoLostUpdate ==
    (Quiescent /\ batch.clean) =>
        /\ batch.ok = batch.n
        /\ Len(donors) = batch.donors0 + batch.n
        /\ Total(stats) = batch.total0 + batch.n

C1_Witness ==
    /\ Quiescent /\ batch.clean /\ batch.overlap
    /\ batch.n = MaxDonors /\ batch.ok = batch.n
    /\ Total(stats) = batch.total0 + batch.n

\* C2: a recount that runs with no donation in flight, from any donor
\* collection and any aggregate (drifted or absent), sets the aggregate total
\* to the number of donor records and returns that number; a second recount
\* right after it returns the same number and leaves the total unchanged.
C2_RecountExact ==
    [][\A r \in Reqs : SoloSyncDone(r) =>
          /\ FindGlobal(stats') # 0
          /\ Total(stats') = Len(donors')
          /\ res'.data = Len(donors')
          /\ lastSync.fresh =>
                /\ (res.kind = "sync" /\ res.status = 200) => res'.data = res.data
                /\ res'.data = Total(stats)
                /\ Total(stats') = Total(stats)]_vars

C2_Witness ==
    /\ res.kind = "sync" /\ res.status = 200
    /\ lastSync.fresh /\ lastSync.again /\ lastSync.drifted
    /\ res.data = Len(donors) /\ Len(donors) > 0
    /\ Total(stats) = Len(donors)

\* C3: the totalUnits of a 201 response is the aggregate total right after
\* the increment of the request, the total before that increment plus 1.
C3_TotalUnitsIsNewTotal ==
    [][\A r \in Reqs :
          (req[r].pc = "increment" /\ req'[r].pc = "idle" /\ res'.status = 201) =>
              /\ res'.data = Total(stats')
              /\ res'.data = Total(stats) + 1]_vars

\* the record of the donation of r is in the collection
Persisted(r, coll) ==
    \E i \in 1..Len(coll) :
        /\ coll[i].fullName = Trim(req[r].body.fullName.s)
        /\ coll[i].bloodGroup = req[r].body.bloodGroup.s
        /\ coll[i].age = parseInt(req[r].body.age).v
        /\ coll[i].year = req[r].body.year.s

\* C4: when the increment of a donation fails after its insert, the donor
\* record stays persisted, the request leaves the aggregate as it was (one
\* less than after the increment), the client gets 500, and the next recount
\* that runs with no donation in flight makes the total the number of donor
\* records again.
C4_IncrementFailure ==
    [][\A r \in Reqs :
          /\ (req[r].pc = "increment" /\ req'[r].pc = "idle" /\ res'.status # 201) =>
                /\ res'.status = 500
                /\ donors' = donors
                /\ Persisted(r, donors')
                /\ stats' = stats
                /\ Total(stats') = Total(IncrementStats(stats, req[r].date)) - 1
          /\ (incFailed /\ SoloSyncDone(r)) => Total(stats') = Len(donors')]_vars

C4_Witness ==
    /\ incFailed
    /\ res.kind = "sync" /\ res.status = 200
    /\ lastSync.fresh /\ lastSync.drifted /\ ~lastSync.again
    /\ res.data = Len(donors)
    /\ Total(stats) = Len(donors)

\* C5: in every quiescent state of a behaviour in which no storage call has
\* failed, the aggregate total is the number of donor records.
C5_QuiescentConsistent ==
    (Quiescent /\ failures = 0) => Total(stats) = Len(donors)

\* the values of the data model
CanonicalBloodGroups ==
    { Str(<<"A", "+">>), Str(<<"A", "-">>), Str(<<"B", "+">>),
      Str(<<"B", "-">>), Str(<<"A", "B", "+">>), Str(<<"A", "B", "-">>),
      Str(<<"O", "+">>), Str(<<"O", "-">>) }

CanonicalYears ==
    { Str(<<"F", "Y">>), Str(<<"S", "Y">>), Str(<<"T", "Y">>),
      Str(<<"F", "i", "n", "a", "l", " ", "Y", "e", "a", "r">>) }

Fields == {"fullName", "bloodGroup", "age", "year"}

\* a field that is missing or empty
MissingOrEmpty(v) == v = Undefined \/ v = Str(<<>>)
AllPresent(b) == \A f \in Fields : ~MissingOrEmpty(b[f])

\* the age is an integer, or the text of one
IsInteger(v) ==
    \/ v.t = "number"
    \/ /\ v.t = "string" /\ v.s # <<>>
       /\ \A i \in 1..Len(v.s) :
             IsDigit(v.s[i]) \/ (i = 1 /\ v.s[i] = "-" /\ Len(v.s) > 1)

AgeAtLeast18(b) == ~isNaN(parseInt(b.age)) /\ parseInt(b.age).v >= 18

NameValid(b) == b.fullName.t = "string" /\ Trim(b.fullName.s) # <<>>

\* the step answers a donation whose handler found the collections
Gate == Answers("donate") /\ StorageReady

Rejected(message) ==
    /\ res'.status = 400
    /\ res'.message = message
    /\ donors' = donors
    /\ stats' = stats

\* C6: a donation with a missing or empty field, submitted when the storage
\* is available, is answered 400 "All fields are required", and the donor
\* collection and the aggregate stay as they were.
C6_RequiredFields ==
    [][(Gate /\ ~AllPresent(res'.body)) => Rejected(MsgRequired)]_vars

C6_Witness ==
    /\ res.kind = "donate" /\ res.status = 400 /\ res.message = MsgRequired
    /\ res.body.year = Str(<<>>)
    /\ \A f \in Fields \ {"year"} : ~MissingOrEmpty(res.body[f])
    /\ StorageReady /\ Len(donors) > 0

\* C7: a donation whose age is an integer below 18 (0 and the negative ones
\* included) and whose other fields are valid is answered 400 "Donor must be
\* at least 18 years old" and nothing is persisted; with age exactly 18 it is
\* answered 201, unless a storage call fails, and one record is persisted.
C7_AgeBoundary ==
    [][(Gate /\ NameValid(res'.body)
             /\ res'.body.bloodGroup \in CanonicalBloodGroups
             /\ res'.body.year \in CanonicalYears
             /\ IsInteger(res'.body.age)) =>
          /\ parseInt(res'.body.age).v < 18 => Rejected(MsgAge)
          /\ parseInt(res'.body.age).v = 18 =>
                /\ res'.status = 201 \/ failures' = failures + 1
                /\ res'.status = 201 => Persisted(1, donors')]_vars

\* C8: a donation with the four fields present and an age of at least 18
\* whose blood group is not one of the eight values, letter case included, is
\* answered 400 "Invalid blood group" and nothing is persisted (submitted
\* when the storage is available).
C8_BloodGroup ==
    [][(Gate /\ AllPresent(res'.body) /\ AgeAtLeast18(res'.body)
             /\ res'.body.bloodGroup \notin CanonicalBloodGroups) =>
          Rejected(MsgBloodGroup)]_vars

C8_Witness ==
    /\ res.kind = "donate" /\ res.status = 400 /\ res.message = MsgBloodGroup
    /\ res.body.bloodGroup = Str(<<"a", "+">>)
    /\ AllPresent(res.body) /\ AgeAtLeast18(res.body)
    /\ StorageReady /\ Len(donors) > 0

\* C9: a donation that passes the presence, age and blood group rules whose
\* year is not one of FY, SY, TY, Final Year is answered 400 "Invalid year
\* selection" and nothing is persisted (submitted when the storage is
\* available).
C9_Year ==
    [][(Gate /\ AllPresent(res'.body) /\ AgeAtLeast18(res'.body)
             /\ res'.body.bloodGroup \in CanonicalBloodGroups
             /\ res'.body.year \notin CanonicalYears) =>
          Rejected(MsgYear)]_vars

C9_Witness ==
    /\ res.kind = "donate" /\ res.status = 400 /\ res.message = MsgYear
    /\ res.body.year = Str(<<"f", "y">>)
    /\ AllPresent(res.body) /\ AgeAtLeast18(res.body)
    /\ res.body.bloodGroup \in CanonicalBloodGroups
    /\ StorageReady /\ Len(donors) > 0

\* the rules of the validation gate, each on its own
Violates(b) ==
    [presence |-> ~AllPresent(b),
     age |-> ~AgeAtLeast18(b),
     bloodGroup |-> b.bloodGroup \notin CanonicalBloodGroups,
     year |-> b.year \notin CanonicalYears]

FirstViolated(b) ==
    IF Violates(b).presence THEN MsgRequired
    ELSE IF Violates(b).age THEN MsgAge
    ELSE IF Violates(b).bloodGroup THEN MsgBloodGroup
    ELSE MsgYear

Violations(b) ==
    Cardinality({k \in {"presence", "age", "bloodGroup", "year"} : Violates(b)[k]})

\* C10: the rules are applied in the order presence, age, blood group, year:
\* a donation that violates more than one rule is answered 400 with the one
\* reason of the first rule it violates.
C10_RuleOrder ==
    [][(Gate /\ Violations(res'.body) > 1) =>
          /\ res'.status = 400
          /\ res'.message = FirstViolated(res'.body)]_vars

\* the donation violates a rule of the gate
ViolatesSome(b) ==
    \/ ~AllPresent(b)
    \/ ~AgeAtLeast18(b)
    \/ b.bloodGroup \notin CanonicalBloodGroups
    \/ b.year \notin CanonicalYears

\* C11 as stated: every donation that violates a rule of the gate is answered
\* 400 with the reason of the first rule it violates, in every state of the
\* server, the states without storage collections included.
C11_AlwaysRejected ==
    [][(Answers("donate") /\ ViolatesSome(res'.body)) =>
          /\ res'.status = 400
          /\ res'.message = FirstViolated(res'.body)]_vars

\* C11, amended: a donation that violates a rule of the gate is answered 400
\* with a reason of the gate and changes nothing when the handler finds the
\* two collections (the reason of the first violated rule, the number 0 as
\* age being reported as a missing field); when the handler does not find
\* them it is answered 500 "Database not configured. Please contact
\* administrator." whatever its fields, and changes nothing.
C11_RejectedWhenStorageReady ==
    [][(Answers("donate") /\ ViolatesSome(res'.body)) =>
          IF StorageReady
          THEN /\ Rejected(IF res'.body.age = Num(0)
                           THEN MsgRequired ELSE FirstViolated(res'.body))
               /\ res'.message \in {MsgRequired, MsgAge, MsgBloodGroup, MsgYear}
          ELSE /\ res'.status = 500
               /\ res'.message = MsgNotConfiguredDonate
               /\ donors' = donors
               /\ stats' = stats]_vars

C11_Witness ==
    /\ res.kind = "donate" /\ res.status = 500
    /\ res.message = MsgNotConfiguredDonate
    /\ ViolatesSome(res.body)
    /\ ~StorageReady /\ mongoClient /\ failures = 1

\* C12: every persisted donor record has an integer age from 18 to 100; a
\* donation with an age above 100 leaves no record.
C12_AgeRange ==
    \A i \in 1..Len(donors) : donors[i].age \in 18..100

\* C13: every persisted donor record has a full name that is trimmed and has
\* at least 2 characters; a donation whose name is white space only or a
\* single character leaves no record.
C13_NameLength ==
    \A i \in 1..Len(donors) :
        /\ donors[i].fullName = Trim(donors[i].fullName)
        /\ Len(donors[i].fullName) >= 2

\* the last step of a listing of r, with a limit of at least 1, that was
\* issued when the response sent last was the 201 of a donation and that no
\* donation and no other response has followed
ListingAfter201(r) ==
    /\ req[r].kind = "donors" /\ req[r].pc = "find" /\ req[r].solo
    /\ res.kind = "donate" /\ res.status = 201
    /\ req[r].limit >= 1
    /\ req'[r].pc = "idle" /\ res'.status = 200

\* the first entry of the list is the donor of the body
FirstIs(list, body) ==
    /\ list # <<>>
    /\ list[1].fullName = Trim(body.fullName.s)
    /\ list[1].bloodGroup = body.bloodGroup.s

DistinctTimes(coll) ==
    \A i, j \in 1..Len(coll) : i # j => coll[i].donatedAt # coll[j].donatedAt

\* record i of coll is a record of the body, later than every other record
LatestOf(coll, i, body) ==
    /\ coll[i].fullName = Trim(body.fullName.s)
    /\ coll[i].bloodGroup = body.bloodGroup.s
    /\ \A j \in 1..Len(coll) : j # i => coll[j].donatedAt < coll[i].donatedAt

\* C14 as stated: a listing with a limit of at least 1, issued after the 201
\* of a donation and before any other donation, has that donor as its first
\* entry (stated for the collections without equal timestamps, where the
\* sort leaves no choice).
C14_RoundTrip ==
    [][\A r \in Reqs :
          (ListingAfter201(r) /\ DistinctTimes(donors)) =>
              FirstIs(res'.list, res.body)]_vars

\* C14, amended: such a listing has that donor as its first entry when the
\* record of the donor has a donatedAt later than that of every other record.
C14_RoundTripLatest ==
    [][\A r \in Reqs :
          ListingAfter201(r) =>
              \A i \in 1..Len(donors) :
                  LatestOf(donors, i, res.body) =>
                      /\ FirstIs(res'.list, res.body)
                      /\ res'.list[1].donatedAt = donors[i].donatedAt]_vars

C14_Witness ==
    /\ res.kind = "donors" /\ res.status = 200
    /\ res.body = OtherBody
    /\ Len(donors) = 2
    /\ donors[1].fullName = AshaRao
    /\ LatestOf(donors, 2, OtherBody)
    /\ FirstIs(res.list, OtherBody)

\* the limit N of a listing: 10 when ?limit= is absent or not a number
ClaimLimit(query) ==
    IF query = Undefined \/ ~IsInteger(query) THEN 10 ELSE parseInt(query).v

Min(a, b) == IF a < b THEN a ELSE b

Projection(d) ==
    [fullName |-> d.fullName, bloodGroup |-> d.bloodGroup, donatedAt |-> d.donatedAt]

\* the k records inserted last, the newest first
NewestFirst(coll, k) == [j \in 1..k |-> Projection(coll[Len(coll) - j + 1])]

\* the last step of a listing of r, answered 200
ListingDone(r) ==
    /\ req[r].kind = "donors" /\ req[r].pc = "find"
    /\ req'[r].pc = "idle" /\ res'.status = 200

\* the timestamps grow with the order of insertion
InsertedInTime(coll) ==
    \A i \in 1..Len(coll) - 1 : coll[i].donatedAt < coll[i + 1].donatedAt

StatsDone(r) ==
    /\ req[r].kind = "stats" /\ req[r].pc = "findStats"
    /\ req'[r].pc = "idle" /\ res'.status = 200

\* the aggregate records
Globals(coll) == {i \in 1..Len(coll) : coll[i].identifier = "global"}

\* C16: GET /api/stats returns the total and the last-updated timestamp of
\* the stored aggregate record as they are, and total 0 with a null timestamp
\* when there is no aggregate record; it writes nothing.
C16_StatsVerbatim ==
    [][\A r \in Reqs :
          StatsDone(r) =>
              /\ stats' = stats
              /\ Globals(stats) = {} =>
                    res'.data = 0 /\ res'.lastUpdated = Null
              /\ Globals(stats) # {} =>
                    \E i \in Globals(stats) :
                        /\ res'.data = stats[i].total_blood_units
                        /\ res'.lastUpdated = stats[i].last_updated]_vars

C16_Witness ==
    /\ res.kind = "stats" /\ res.status = 200
    /\ res.data = MaxDonors /\ res.lastUpdated = MaxClock
    /\ Total(stats) = MaxDonors

DataKinds == {"donate", "stats", "donors", "sync"}

\* the positions of a request whose handler has called the storage
StoragePcs == {"insert", "increment", "count", "update", "findStats", "find"}

\* the step runs the first part of the handler of a request of this kind:
\* the request is answered at once, or the handler has called the storage
HandlerRuns(kind) ==
    \/ req' = req /\ res' # res /\ res'.kind = kind
    \/ \E r \in Reqs :
          /\ req[r].pc \in {"idle", "awaitInit"}
          /\ req'[r] # req[r]
          /\ req'[r].pc # "awaitInit"
          /\ IF req'[r].pc = "idle" THEN res'.kind = kind ELSE req'[r].kind = kind

\* no request enters the storage in the step
NoStorageCall ==
    /\ \A r \in Reqs : req'[r].pc \in StoragePcs => req'[r] = req[r]
    /\ donors' = donors
    /\ stats' = stats

\* C17: while the storage collections are not initialised, the handlers of
\* donate, stats, donors and sync-stats answer 500 "Database not configured"
\* without a storage call, and the server goes on serving.
C17_NotConfigured ==
    [][\A kind \in DataKinds :
          (HandlerRuns(kind) /\ ~StorageReady) =>
              /\ res'.kind = kind
              /\ res'.status = 500
              /\ res'.message =
                    IF kind = "donate" THEN MsgNotConfiguredDonate
                                       ELSE MsgNotConfigured
              /\ NoStorageCall
              /\ serving' = serving
              /\ clientVars' = clientVars]_vars

C17_Witness ==
    /\ res.kind = "donors" /\ res.status = 500
    /\ res.message = MsgNotConfigured
    /\ ~StorageReady /\ mongoClient /\ initPc = "failed"
    /\ serving /\ \A r \in Reqs : ~InFlight(r)

\* the step of initMongo that ends the part ensuring the aggregate record
EnsuresAggregate ==
    initPc \in {"findStats", "insertStats"} /\ initPc' = "index1"

\* C18: an initialisation that succeeds leaves exactly one aggregate record
\* 'global', created with total 0 when there was none and left with its
\* total when there was one, whatever donations and recounts run with it.
C18_SingletonAggregate ==
    [][/\ Cardinality(Globals(stats')) <= 1
       /\ EnsuresAggregate =>
             /\ Cardinality(Globals(stats')) = 1
             /\ Globals(stats) = {} => Total(stats') = 0
             /\ Globals(stats) # {} => Total(stats') = Total(stats)]_vars

\* initMongo has returned without initialising the storage: the connection
\* string is absent, or a step has failed
InitFailed == ~MONGODB_URI \/ initPc = "failed"

NotConfiguredMessages == {MsgNotConfigured, MsgNotConfiguredDonate}

C20_AppendOnly ==
    [][/\ Len(donors') >= Len(donors)
       /\ \A i \in 1..Len(donors) : donors'[i] = donors[i]]_vars

C20_Witness ==
    /\ Len(donors) = MaxDonors
    /\ donors[1].fullName # donors[MaxDonors].fullName
    /\ res.kind = "sync" /\ res.status = 200
    /\ failures > 0

\* the generic message of the catch block of a route
CatchMessage(kind) ==
    CASE kind = "donate" -> MsgServerError
      [] kind = "sync" -> MsgSyncError
      [] kind = "stats" -> MsgStatsError
      [] kind = "donors" -> MsgDonorsError
      [] OTHER -> MsgNone

\* the step answers from a catch block
Caught == res' # res /\ res'.status = 500 /\ res'.message = CatchMessage(res'.kind)

DebugOn == DEBUG = Str(<<"t", "r", "u", "e">>)

\* C21: a response carries the detail of an internal error (_debug, message
\* and stack) only when DEBUG is exactly 'true', and then only in a 500
\* response of a catch block; under any other value of DEBUG the response
\* of a failing request is the same whatever the error was: status 500,
\* the generic message of the route and nothing else.  Under 'true' the
\* detail is that of the error.
C21_DebugOnly ==
    [][res' # res =>
          /\ res'.debug # NoDebug => DebugOn /\ Caught
          /\ (Caught /\ ~DebugOn) =>
                res' = [NoRes EXCEPT !.kind = res'.kind, !.body = res'.body,
                                     !.status = 500,
                                     !.message = CatchMessage(res'.kind)]
          /\ (Caught /\ DebugOn) =>
                res'.debug \in {DebugOf(error) :
                                  error \in StorageErrors \cup {TypeError}}]_vars

C21_Witness ==
    /\ DEBUG = Str(<<"T", "R", "U", "E">>)
    /\ failures > 0
    /\ res.status = 500 /\ res.message = MsgServerError
    /\ res.debug = NoDebug

\* C22: a donation request comes to its increment only from its insert, in
\* the step in which the insert has added its record; the aggregate is
\* written for a donation only in the step of a request at its increment;
\* and a donation that is answered from its validation or from its failed
\* insert is answered 400 or 500 and leaves the aggregate and the donors
\* as they were.
C22_IncrementAfterInsert ==
    [][/\ \A r \in Reqs :
             /\ (req'[r].pc = "increment" /\ req[r].pc # "increment") =>
                   /\ req[r].kind = "donate" /\ req[r].pc = "insert"
                   /\ donors' = Append(donors, DonorDoc(req[r].body, req[r].date))
             /\ (req[r].pc \in {"idle", "awaitInit", "insert"}
                   /\ req'[r] # req[r] /\ req'[r].pc = "idle"
                   /\ res'.kind = "donate") =>
                   /\ res'.status \in {400, 500}
                   /\ stats' = stats
                   /\ donors' = donors
       /\ (Answers("donate") /\ stats' # stats) =>
             \E r \in Reqs :
                /\ req[r].kind = "donate" /\ req[r].pc = "increment"
                /\ req'[r].pc = "idle"
                /\ res'.status = 201]_vars

C22_Witness ==
    /\ res.kind = "donate" /\ res.status = 500 /\ res.message = MsgServerError
    /\ failures > 0 /\ ~incFailed
    /\ Len(donors) = 1 /\ Total(stats) = 1
    /\ \A r \in Reqs : ~InFlight(r)

\* the positions of a donation request, in the order of the handler
Rank(pc) ==
    CASE pc = "awaitInit" -> 0
      [] pc = "insert" -> 1
      [] pc = "increment" -> 2
      [] OTHER -> 3

\* C23: a donation request goes through its insert once and through its
\* increment once (its position only advances, each storage call is one
\* step); the step that leaves the insert adds at most one donor record and
\* the step that leaves the increment raises the total by at most 1, and no
\* other step of the request writes; the request is answered 201 exactly
\* when its insert had added its record and its increment is applied in the
\* answering step.
C23_OneInsertOneIncrement ==
    [][\A r \in Reqs :
          (req[r].kind = "donate" /\ InFlight(r) /\ req'[r] # req[r]) =>
             /\ Rank(req'[r].pc) > Rank(req[r].pc)
             /\ Len(donors') \in {Len(donors), Len(donors) + 1}
             /\ Total(stats') \in {Total(stats), Total(stats) + 1}
             /\ Len(donors') = Len(donors) + 1 <=>
                   (req[r].pc = "insert" /\ req'[r].pc = "increment")
             /\ stats' # stats => req[r].pc = "increment"
             /\ req[r].pc # "insert" => donors' = donors
             /\ req'[r].pc = "idle" =>
                   (res'.status = 201 <=>
                      /\ req[r].pc = "increment"
                      /\ stats' = IncrementStats(stats, req[r].date)
                      /\ Total(stats') = Total(stats) + 1)]_vars

C23_Witness ==
    /\ res.kind = "donate" /\ res.status = 201
    /\ incFailed
    /\ Len(donors) = 2 /\ Total(stats) = 1
    /\ \A r \in Reqs : ~InFlight(r)

\* C24: the step that answers a donation with 400, and any step that
\* answers a donation whose body breaks a rule of the validation, leaves
\* the donor collection and the aggregate records, their last_updated
\* included, as they were.
C24_RejectedFrame ==
    [][(Answers("donate") /\ (res'.status = 400 \/ ViolatesSome(res'.body))) =>
          /\ donors' = donors
          /\ stats' = stats]_vars

\* a rejection at a later instant than the last write of the aggregate
C24_Witness ==
    /\ res.kind = "donate" /\ res.status = 400 /\ res.message = MsgAge
    /\ FindGlobal(stats) # 0
    /\ Total(stats) = 1 /\ Len(donors) = 1
    /\ stats[FindGlobal(stats)].last_updated < now

\* C25: when the requests of a batch that contains a recount have all
\* completed and no storage call has failed, the aggregate total is neither
\* greater nor less than the number of donor records.
C25_RecountWithDonations ==
    (Quiescent /\ failures = 0 /\ StorageReady /\ ~batch.clean) =>
        /\ ~(Total(stats) > Len(donors))
        /\ ~(Total(stats) < Len(donors))

\* C26: in a run of initialisation, donations and reads of the aggregate
\* from an empty database (total 0, no donor), the aggregate total is at
\* most the number of donor records before and after every step, and no
\* step lowers it.
C26_TotalBoundedMonotone ==
    [][/\ Total(stats) <= Len(donors)
       /\ Total(stats') <= Len(donors')
       /\ Total(stats') >= Total(stats)]_vars

\* a read of the aggregate after an increment has failed: total 1, 2 donors
C26_Witness ==
    /\ res.kind = "stats" /\ res.status = 200 /\ res.data = 1
    /\ Total(stats) = 1 /\ Len(donors) = 2
    /\ incFailed

\* C27: in every reachable state, under every interleaving of
\* initialisation, donations and recounts, the total of every aggregate
\* record, and so the aggregate total, is a natural number.
C27_TotalNatural ==
    /\ \A i \in DOMAIN stats : stats[i].total_blood_units \in Nat
    /\ Total(stats) \in Nat

\* the floor: a recount that counted before a donation and wrote after it
C27_Witness ==
    /\ Quiescent /\ failures = 0
    /\ FindGlobal(stats) # 0
    /\ Total(stats) = 0
    /\ Len(donors) = 1

\* C28: in every reachable state the stats collection holds at most one
\* record with identifier 'global'.
C28_AtMostOneGlobal == Cardinality(Globals(stats)) <= 1

\* C29: with a connection string and no storage failure, no request that
\* comes through the serverless handler is answered 'Database not
\* configured', whenever it arrives.
C29_NeverNotConfigured ==
    [][(res' # res /\ MONGODB_URI /\ failures' = 0) =>
          res'.message \notin NotConfiguredMessages]_vars

\* C30: a request starts initMongo, which constructs the client, only when
\* there is no client and no initialisation has begun; a client, once
\* constructed, stays; the database handle and the collections are assigned
\* once, by the connect of that initialisation, and stay as assigned.
C30_OneClient ==
    [][/\ \A r \in Reqs :
             (req'[r].pc = "awaitInit" /\ req[r].pc # "awaitInit") =>
                /\ ~mongoClient /\ initPc = "idle"
                /\ mongoClient' /\ initPc' = "connect"
       /\ initPc' = "connect" => (initPc = "connect" \/ ~mongoClient)
       /\ initPc # "idle" => initPc' # "idle"
       /\ mongoClient => mongoClient'
       /\ <<mongoDB, donorsCollection, statsCollection>>
             # <<mongoDB', donorsCollection', statsCollection'>> =>
                /\ initPc = "connect" /\ initPc' = "findStats"
                /\ ~mongoDB /\ ~donorsCollection /\ ~statsCollection
                /\ mongoDB' /\ donorsCollection' /\ statsCollection']_vars

\* the request that started the initialisation still awaits it while a
\* second request is served with the collections of the same client
C30_Witness ==
    /\ mongoClient /\ InitRunning /\ StorageReady
    /\ req[1].pc = "awaitInit"
    /\ req[2].kind = "donate" /\ req[2].pc = "increment"
    /\ Len(donors) = 1

\* initMongo has returned from its catch after mongoClient.connect() failed:
\* the database handle, assigned right after the connect, is not set
ConnectFailed == initPc = "failed" /\ ~mongoDB

\* C31: once initMongo has failed at its connect, no step starts it again
\* or assigns the client, the database handle or the collections, whether
\* or not a later storage call could succeed, and every later data request
\* is answered 500 'Database not configured' without a storage call.
C31_NoRetryAfterConnectFailure ==
    [][ConnectFailed =>
          /\ initPc' = "failed"
          /\ clientVars' = clientVars
          /\ ~StorageReady
          /\ \A r \in Reqs : req'[r].pc = "awaitInit" => req[r].pc = "awaitInit"
          /\ \A kind \in DataKinds :
                HandlerRuns(kind) =>
                   /\ res'.kind = kind
                   /\ res'.status = 500
                   /\ res'.message \in NotConfiguredMessages
                   /\ NoStorageCall]_vars

\* a second data request answered after the failed connect
C31_Witness ==
    /\ ConnectFailed /\ mongoClient
    /\ failures > 0
    /\ res.kind = "donors" /\ res.status = 500
    /\ res.message = MsgNotConfigured
    /\ batch.n = 0 /\ ~batch.clean
    /\ now > 0

\* C32: when the increment of a donation is applied while the stats
\* collection holds no aggregate record, it adds the record 'global' with
\* total 1 and the time of the request, however many donor records there
\* are, and the 201 response carries totalUnits 1.
C32_UpsertCreatesOne ==
    [][\A r \in Reqs :
          (/\ req[r].kind = "donate" /\ req[r].pc = "increment"
           /\ req'[r].pc = "idle" /\ res'.status = 201
           /\ Globals(stats) = {}) =>
             /\ stats' = Append(stats, [identifier |-> "global",
                                        total_blood_units |-> 1,
                                        last_updated |-> req[r].date])
             /\ Total(stats') = 1
             /\ res'.data = 1
             /\ donors' = donors]_vars

\* the aggregate created by the increment of a second donation, after the
\* increment of the first one has failed and before initMongo has looked
\* for the record: 2 donor records, total 1
C32_Witness ==
    /\ initPc = "findStats" /\ incFailed
    /\ res.kind = "donate" /\ res.status = 201 /\ res.data = 1
    /\ Len(donors) = 2
    /\ Cardinality(Globals(stats)) = 1 /\ Total(stats) = 1

ReadKinds == {"stats", "donors", "health"}

\* the step is a step of a read request: its dispatch, its storage call or
\* its response
ReadStep ==
    \/ res' # res /\ res'.kind \in ReadKinds
    \/ \E r \in Reqs :
          /\ req'[r] # req[r]
          /\ req[r].kind \in ReadKinds \/ req'[r].kind \in ReadKinds

\* C33: no step of a request of GET /api/stats, GET /api/donors or
\* GET /api/health, answered 200 or 500, with any limit, changes the donor
\* collection or the stats collection.
C33_ReadsWriteNothing ==
    [][ReadStep => (donors' = donors /\ stats' = stats)]_vars

\* a listing answered at a later instant than the last write of the aggregate
C33_Witness ==
    /\ res.kind = "donors" /\ res.status = 200 /\ Len(res.list) = 1
    /\ Len(donors) = 1 /\ Total(stats) = 1
    /\ stats[FindGlobal(stats)].last_updated < now

\* the step delivers signal s: its handler begins to await the close, or
\* the process exits with no handler leaving its await
Delivered(s) ==
    /\ process.handlers[s] = "none"
    /\ \/ process'.handlers[s] = "closing"
       \/ /\ process'.exited /\ ~process.exited
          /\ process'.handlers = process.handlers

\* C34: the process exits only from a signal handler and with code 0; a
\* signal delivered while there is a client calls close() once and exits
\* when close() has returned or thrown; a signal delivered while there is
\* no client exits at once without calling close(); nothing runs after the
\* exit.
C34_Shutdown ==
    [][/\ \A s \in Signals :
             /\ (Delivered(s) /\ mongoClient) =>
                   /\ process'.handlers[s] = "closing"
                   /\ process'.closeCalls = process.closeCalls + 1
                   /\ ~process'.exited
             /\ (Delivered(s) /\ ~mongoClient) =>
                   /\ process'.exited /\ process'.code = 0
                   /\ process'.closeCalls = process.closeCalls
             /\ (process.handlers[s] = "closing"
                   /\ process'.handlers[s] # "closing") =>
                   /\ process'.exited /\ process'.code = 0
                   /\ process'.closeCalls = process.closeCalls
       /\ process'.exited => process'.code = 0
       /\ (process'.exited /\ ~process.exited) =>
             \E s \in Signals : process'.handlers[s] # process.handlers[s]
                                   \/ Delivered(s)
       /\ ~process.exited]_vars

\* the exit after a close() that threw
C34_Witness ==
    /\ process.exited /\ process.code = 0
    /\ process.closeFailed /\ process.closeCalls = 2
    /\ mongoClient

\* C35: a listing with ?limit=0 runs with the limit 10 of a listing without
\* ?limit=: of a collection of M records it returns min(10, M) records, the
\* list a listing without limit can return, and at least one record when
\* there is one.
C35_ZeroLimitIsDefault ==
    [][\A r \in Reqs :
          (ListingDone(r) /\ req[r].query \in ZeroQueries) =>
             /\ req[r].limit = 10
             /\ Len(res'.list) = Min(10, Len(donors))
             /\ donors # <<>> => res'.list # <<>>
             /\ \E tie \in TieOrders :
                   res'.list = Mapped(Limit(SortByDonatedAtDesc(donors, tie),
                                            ParseLimit(Undefined)))]_vars

\* ?limit=0 on a collection of more than 10 records, about to be listed
C35_Witness ==
    /\ req[1].kind = "donors" /\ req[1].pc = "find"
    /\ req[1].query = Str(<<"0">>)
    /\ req[1].limit = DefaultLimit
    /\ Len(donors) = MaxList

\* the step is a submit of the form
SubmitStep == ~browser.form.awaiting /\ browser'.form # browser.form

\* C36: a submit sends the request only when the four fields are not empty
\* and the age parses to an integer from 18 to 65; with a parsed age below
\* 18 or above 65 it sends nothing.
C36_SendsOnlyValid ==
    [][SubmitStep =>
          LET f == browser'.form.fields
              age == ParseIntStr(f.age)
          IN  /\ browser'.form.sent =>
                    /\ f.fullName # Empty /\ f.bloodGroup # Empty
                    /\ f.age # Empty /\ f.year # Empty
                    /\ ~isNaN(age) /\ age.v >= 18 /\ age.v <= 65
              /\ (~isNaN(age) /\ (age.v < 18 \/ age.v > 65)) =>
                    ~browser'.form.sent]_vars

\* the step handles the response of a call of fetchStats
PollOk ==
    /\ browser'.dashboard.pending = browser.dashboard.pending - 1
    /\ browser'.dashboard.outcome = "ok"

PollFailed ==
    /\ browser'.dashboard.pending = browser.dashboard.pending - 1
    /\ browser'.dashboard.outcome = "failed"

\* C37: the first successful poll of the dashboard does not start the
\* celebration; a later successful poll starts it exactly when its total is
\* greater than the total of the successful poll before it; after a
\* successful poll previousTotal is its total; a failed poll starts nothing
\* and leaves previousTotal.
C37_Celebration ==
    [][/\ PollOk =>
             /\ browser.dashboard.fetched = Null => ~browser'.dashboard.popup
             /\ browser.dashboard.fetched # Null =>
                   (browser'.dashboard.popup <=>
                      browser'.dashboard.fetched > browser.dashboard.fetched)
             /\ browser'.dashboard.previousTotal = browser'.dashboard.fetched
       /\ PollFailed =>
             /\ ~browser'.dashboard.popup
             /\ browser'.dashboard.previousTotal = browser.dashboard.previousTotal
             /\ browser'.dashboard.fetched = browser.dashboard.fetched]_vars

\* a celebration: the total 2 after a successful poll with a smaller total
C37_Witness ==
    /\ browser.dashboard.outcome = "ok"
    /\ browser.dashboard.popup
    /\ browser.dashboard.fetched = 2
    /\ browser.dashboard.previousTotal = 2
    /\ ~browser.dashboard.isFirstLoad

====
